---------------------------- MODULE Spec2Model ----------------------------
(***************************************************************************)
(* A model of guitar2sax's audio utilities (src/services/audioUtils.ts):   *)
(* the WAV writer, the MIDI writer, the note segmenter and the offline     *)
(* render set-up.  Each exported function is an operator computed the way  *)
(* the code computes it; each specification draws the function's inputs in *)
(* Init and applies the function in its action.                            *)
(* The tone transfer of src/App.tsx (upload, start, stop, Reset, the live  *)
(* session's callbacks and the timers) is a state machine of its own,      *)
(* SpecApp, with one action per callback.                                  *)
(*                                                                         *)
(* Numbers.  Samples are multiples of 1/SampleDen, times are multiples of  *)
(* 1/TimeDen second and velocities multiples of 1/VelDen; with the values  *)
(* chosen (powers of two) every product the code forms with them is exact  *)
(* in IEEE double precision, so integer arithmetic on the numerators is    *)
(* what the code computes.  The one place where double rounding decides    *)
(* the outcome, the minimum-duration test of addNote, is computed in       *)
(* double precision (FDiv, FMulInt, FGreater).                             *)
(***************************************************************************)
EXTENDS Integers, Sequences, FiniteSets, TLC

VARIABLES
    wavBuffer,      \* the AudioBuffer handed to audioBufferToWav
    wavBlob,        \* its result: [kind |-> "pending"] before the call, then
                    \* [kind |-> "blob", bytes |-> the file's bytes]
    vlqValue,       \* the value handed to writeVLQ
    vlqEvents,      \* the events array writeVLQ appends to
    midiNotes,      \* the NoteEvent[] handed to createMidiBlobFromNotes
    midiBlob,       \* its result: [kind |-> "pending"], [kind |-> "null"] or
                    \* [kind |-> "blob", bytes |-> the file's bytes]
    segRate,        \* buffer.sampleRate of the buffer handed to
                    \* extractNotesFromBuffer
    pitchFrames,    \* its pitchFrames, one MIDI note number (0: none) a frame
    segNotes,       \* the notes it returned: [kind |-> "pending"] before the
                    \* call, then [kind |-> "notes", notes |-> the list,
                    \* smoothedNotes |-> the median-filtered pitch frames]
    segAgain,       \* the notes returned for the pitch frames rebuilt from
                    \* segNotes
    renderNotes,    \* the notes, sampleRate and totalDuration handed to a
    renderRate,     \* render function
    renderDuration,
    renderResult,   \* its outcome: [kind |-> "pending"], [kind |-> "error"]
                    \* (the call threw) or [kind |-> "buffer", instrument,
                    \* length |-> the frames of the rendered AudioBuffer,
                    \* impulse and noise |-> the first frames of the reverb
                    \* impulse and of each note's noise buffer]
    renderAgain,    \* the outcome of a second call of the same render
                    \* function with the same arguments
    mathRandom,     \* the values Math.random() is about to return
    extBuffer,      \* the AudioBuffer handed to extractNotesFromBuffer, as
                    \* its sampleRate, its length and the magnitude of the
                    \* samples of each block of hopSize samples
    extDetected,    \* for each analysis frame the note number lines 161-169
                    \* arrive at when the frame is handed to detectPitchAMDF
    extResult,      \* [kind |-> "pending"], then [kind |-> "notes",
                    \* pitchFrames, notes |-> the list returned]
    amdfBuffer,     \* the frame and the sampleRate handed to
    amdfRate,       \* detectPitchAMDF
    amdfResult,     \* [kind |-> "pending"], then [kind |-> "returned",
                    \* num, den |-> the value returned, num / den]
    appState,       \* App's React state (src/App.tsx): the AppState,
    inputBuffer,    \* the decoded input ([kind |-> "null"] or its length at
                    \* 16 kHz and whether it is digitally silent),
    outputBuffer,   \* the published output ([kind |-> "null"] or the chunks
                    \* it was built from),
    midiBlobState,  \* the state midiBlob of App ([kind |-> "null"] or the
                    \* blob generated from an output buffer)
    errorMsg,       \* and which error message is shown ("null": none)
    chunksRef,      \* chunksRef.current: the received audio chunks, each
                    \* one written as the transfer whose session sent it
    isStreamingRef, \* isStreamingRef.current
    streamTimeoutRef, \* streamTimeoutRef.current and watchdogRef.current:
    watchdogRef,    \* a timer handle or NoTimer (null)
    sessionRef,     \* sessionRef.current: the transfer whose session
                    \* promise it holds, 0 for null
    timers,         \* the browser's pending setTimeout timers
    sessions,       \* for each transfer started: the state of its start
                    \* and of its live session, the pcmData its callbacks
                    \* close over, the offset of its pushChunk and the
                    \* appState rendered when startToneTransfer was called
                    \* (the one its finalizeOutput closes over)
    awaiting,       \* the calls of stopProcessingManual suspended at
                    \* "await sessionRef.current": <<session, transfer>>
    decoding,       \* TRUE while handleFileUpload awaits the decoder
    transfer,       \* how many transfers startToneTransfer has started
    sessionHasSend, \* whether the Session object of the SDK has a method
                    \* named send (line 329 tests it)
    file,           \* the audio file the user picks, as decodeAudioData
                    \* decodes it
    clicks,         \* how many times the user has acted
    log             \* history: what each transfer has done so far

vars ==
    <<wavBuffer, wavBlob, vlqValue, vlqEvents, midiNotes, midiBlob,
      segRate, pitchFrames, segNotes, segAgain,
      renderNotes, renderRate, renderDuration, renderResult, renderAgain,
      mathRandom, extBuffer, extDetected, extResult,
      amdfBuffer, amdfRate, amdfResult,
      appState, inputBuffer, outputBuffer, midiBlobState, errorMsg,
      chunksRef, isStreamingRef, streamTimeoutRef, watchdogRef, sessionRef,
      timers, sessions, awaiting, decoding, transfer, sessionHasSend,
      file, clicks, log>>

wavVars == <<wavBuffer, wavBlob>>
vlqVars == <<vlqValue, vlqEvents>>
midiVars == <<midiNotes, midiBlob>>
segVars == <<segRate, pitchFrames, segNotes, segAgain>>
renderVars ==
    <<renderNotes, renderRate, renderDuration, renderResult, renderAgain,
      mathRandom>>
extVars == <<extBuffer, extDetected, extResult>>
amdfVars == <<amdfBuffer, amdfRate, amdfResult>>
appVars ==
    <<appState, inputBuffer, outputBuffer, midiBlobState, errorMsg,
      chunksRef, isStreamingRef, streamTimeoutRef, watchdogRef, sessionRef,
      timers, sessions, awaiting, decoding, transfer, sessionHasSend,
      file, clicks, log>>

-----------------------------------------------------------------------------
(* Generic helpers *)

Min(a, b) == IF a < b THEN a ELSE b
Max(a, b) == IF a > b THEN a ELSE b

\* x | 0 on a rational num/den (den > 0) inside the int32 range: truncation
\* toward zero.
TruncDiv(num, den) == IF num >= 0 THEN num \div den ELSE -((-num) \div den)

\* A sequence of n copies of x.
Repeat(x, n) == [i \in 1..n |-> x]

\* A call that has not returned yet, and a returned Blob.
Pending == [kind |-> "pending"]
Blob(bytes) == [kind |-> "blob", bytes |-> bytes]

-----------------------------------------------------------------------------
(* audioBufferToWav *)

\* Samples are numerators over SampleDen: 1.0 is SampleDen.
SampleDen == 4

\* Longest buffer (in frames) handed to audioBufferToWav.
MaxWavFrames == 46

\* The byte offset of the data words, audioBufferToWav's literal 44.
WavDataOffset == 44

\* DataView.setUint16(pos, data, true) and setUint32(pos, data, true): the
\* little-endian bytes of data.
setUint16(data) == << data % 256, (data \div 256) % 256 >>

setUint32(data) ==
    << data % 256, (data \div 256) % 256,
       (data \div 65536) % 256, (data \div 16777216) % 256 >>

\* DataView.setInt16(off, sample, true): two's complement, little-endian.
setInt16(sample) == setUint16((sample + 65536) % 65536)

\* The mutant of WavHeader: the data chunk's length taken from the file's
\* length without the position reached.
WavHeaderDataLengthFromTotal(buffer) ==
    LET numOfChan == buffer.numberOfChannels
        length == buffer.length * numOfChan * 2 + WavDataOffset
        upToData ==
            setUint32(1179011410)
            \o setUint32(length - 8)
            \o setUint32(1163280727)
            \o setUint32(544501094)
            \o setUint32(16)
            \o setUint16(1)
            \o setUint16(numOfChan)
            \o setUint32(buffer.sampleRate)
            \o setUint32(buffer.sampleRate * 2 * numOfChan)
            \o setUint16(numOfChan * 2)
            \o setUint16(16)
            \o setUint32(1635017060)
    IN  upToData \o setUint32(length - 4)

\* Lines 74-88: the header fields in the order they are written; pos is the
\* number of bytes written so far, so the data chunk length is written while
\* pos = 40.
WavHeader(buffer) ==
    LET numOfChan == buffer.numberOfChannels
        length == buffer.length * numOfChan * 2 + WavDataOffset
        upToData ==
            setUint32(1179011410)                       \* "RIFF" 0x46464952
            \o setUint32(length - 8)
            \o setUint32(1163280727)                    \* "WAVE" 0x45564157
            \o setUint32(544501094)                     \* "fmt " 0x20746d66
            \o setUint32(16)
            \o setUint16(1)
            \o setUint16(numOfChan)
            \o setUint32(buffer.sampleRate)
            \o setUint32(buffer.sampleRate * 2 * numOfChan)
            \o setUint16(numOfChan * 2)
            \o setUint16(16)
            \o setUint32(1635017060)                    \* "data" 0x61746164
    IN  upToData \o setUint32(length - Len(upToData) - 4)

\* Lines 96-97: sample = max(-1, min(1, s));
\* sample = (0.5 + sample < 0 ? sample * 32768 : sample * 32767) | 0.
QuantizeSample(s) ==
    LET c == Max(-SampleDen, Min(SampleDen, s))
    IN  IF SampleDen + 2 * c < 0
        THEN TruncDiv(c * 32768, SampleDen)
        ELSE TruncDiv(c * 32767, SampleDen)

\* Lines 95-100: one pass of the inner loop, the words of frame pos of every
\* channel.
RECURSIVE WavFrame(_, _, _)
WavFrame(buffer, pos, i) ==
    IF i < buffer.numberOfChannels
    THEN setInt16(QuantizeSample(buffer.channels[i + 1][pos + 1]))
         \o WavFrame(buffer, pos, i + 1)
    ELSE <<>>

\* Lines 94-102: while (pos < buffer.length) { ...; pos++ }, the bytes written
\* from offset 44 on.
RECURSIVE WavData(_, _)
WavData(buffer, pos) ==
    IF pos < buffer.length
    THEN WavFrame(buffer, pos, 0) \o WavData(buffer, pos + 1)
    ELSE <<>>

\* Lines 62-104.  The ArrayBuffer starts zeroed; the header lands at 0.., the
\* data at 44..; pos, left at the header's end by setUint16/setUint32, is the
\* frame index the data loop starts from.
audioBufferToWav(buffer) ==
    LET length == buffer.length * buffer.numberOfChannels * 2 + WavDataOffset
        header == WavHeader(buffer)
        data == WavData(buffer, Len(header))
    IN  [b \in 1..length |->
            IF b <= Len(header) THEN header[b]
            ELSE IF b - WavDataOffset \in 1..Len(data)
                 THEN data[b - WavDataOffset]
                 ELSE 0]

\* The sample values the buffers are filled from (numerators over SampleDen,
\* so with SampleDen = 4: 1.0, -1.0, -0.25, 0.5, -0.5, 0, 1.5, -1.5, 0.25,
\* -0.75).
SampleVals ==
    << SampleDen, -SampleDen, -1, 2, -2, 0, SampleDen + 2, -SampleDen - 2, 1, -3 >>

\* The buffer of n frames and c channels whose samples run through SampleVals
\* from position phase on, channel ch shifted by 3 * ch.
PatternBuffer(n, c, rate, phase) ==
    [ numberOfChannels |-> c,
      length |-> n,
      sampleRate |-> rate,
      channels |-> [ch \in 1..c |->
                      [k \in 1..n |->
                          SampleVals[((phase + (k - 1) + 3 * (ch - 1))
                                        % Len(SampleVals)) + 1]]] ]

WavInputs ==
    { PatternBuffer(n, c, rate, phase) :
        n \in 0..MaxWavFrames, c \in 1..2, rate \in {8000, 44100},
        phase \in 0..(Len(SampleVals) - 1) }

-----------------------------------------------------------------------------
(* createMidiBlobFromNotes *)

\* Times are numerators over TimeDen second, velocities over VelDen.
TimeDen == 1024
VelDen == 8

\* Longest note list handed to createMidiBlobFromNotes.
MaxMidiNotes == 2

\* Lines 581-583.
timeBase == 480
tempo == 500000

\* The mutant of ticksPerSecond: the ticks of a quarter note taken for the
\* ticks of a second.
ticksPerSecondAsTimeBase == timeBase

ticksPerSecond == 960

\* The default instrumentName, "Virtuoso Instrument", as char codes (line 578).
DefaultInstrumentName ==
    << 86, 105, 114, 116, 117, 111, 115, 111, 32,
       73, 110, 115, 116, 114, 117, 109, 101, 110, 116 >>

\* Lines 590-593: do { buffer.push(v & 0x7F); v >>= 7 } while (v > 0), the
\* 7-bit groups of a value in 0..2^31-1, least significant first.
RECURSIVE VlqGroups(_)
VlqGroups(v) ==
    <<v % 128>> \o (IF v \div 128 > 0 THEN VlqGroups(v \div 128) ELSE <<>>)

\* The mutant of writeVLQ: the groups pushed in the order they were computed,
\* least significant first.
writeVLQLittleEndian(value) ==
    LET buffer == VlqGroups(value)
        n == Len(buffer)
    IN  [i \in 1..n |-> IF i < n THEN buffer[i] + 128 ELSE buffer[i]]

\* Lines 587-596: the bytes writeVLQ pushes on events: buffer[n-1] | 0x80,
\* ..., buffer[1] | 0x80, then buffer[0].
writeVLQ(value) ==
    LET buffer == VlqGroups(value)
        n == Len(buffer)
    IN  [i \in 1..n |->
            IF i < n THEN buffer[n - i + 1] + 128 ELSE buffer[1]]

\* Math.round(num / den) for den > 0: the nearest integer, halves upward.
MathRound(num, den) == (2 * num + den) \div (2 * den)

\* The mutant of NoteInstants: the end tick taken as the start tick plus the
\* rounded duration.
NoteInstantsEndFromDuration(n) ==
    LET startTick == MathRound(n.start * ticksPerSecond, TimeDen)
        endTick == startTick + MathRound(n.duration * ticksPerSecond, TimeDen)
        midVel == Max(10 * VelDen, Min(127 * VelDen, n.velocity * 127)) \div VelDen
    IN  << [tick |-> startTick, type |-> "on", note |-> n.note, velocity |-> midVel],
           [tick |-> endTick, type |-> "off", note |-> n.note, velocity |-> 0] >>

\* The mutant of NoteInstants: the velocity scaled but not held at 10 or above.
NoteInstantsVelocityUnclamped(n) ==
    LET startTick == MathRound(n.start * ticksPerSecond, TimeDen)
        endTick == MathRound((n.start + n.duration) * ticksPerSecond, TimeDen)
        midVel == Max(0, Min(127 * VelDen, n.velocity * 127)) \div VelDen
    IN  << [tick |-> startTick, type |-> "on", note |-> n.note, velocity |-> midVel],
           [tick |-> endTick, type |-> "off", note |-> n.note, velocity |-> 0] >>

\* Lines 609-614: the two instants of one note.  start * 960 is
\* (start numerator * 960) / TimeDen.
NoteInstants(n) ==
    LET startTick == MathRound(n.start * ticksPerSecond, TimeDen)
        endTick == MathRound((n.start + n.duration) * ticksPerSecond, TimeDen)
        midVel == Max(10 * VelDen, Min(127 * VelDen, n.velocity * 127)) \div VelDen
    IN  << [tick |-> startTick, type |-> "on", note |-> n.note, velocity |-> midVel],
           [tick |-> endTick, type |-> "off", note |-> n.note, velocity |-> 0] >>

\* Lines 608-615: notes.forEach, the instants in generation order.
RECURSIVE ExpandNotes(_)
ExpandNotes(notes) ==
    IF notes = <<>> THEN <<>>
    ELSE NoteInstants(Head(notes)) \o ExpandNotes(Tail(notes))

\* Insertion of e behind every element whose tick is not greater: the stable
\* order Array.prototype.sort guarantees.
RECURSIVE InsertByTick(_, _)
InsertByTick(sorted, e) ==
    IF sorted = <<>> THEN <<e>>
    ELSE IF Head(sorted).tick <= e.tick
         THEN <<Head(sorted)>> \o InsertByTick(Tail(sorted), e)
         ELSE <<e>> \o sorted

RECURSIVE SortFrom(_, _)
SortFrom(sorted, rest) ==
    IF rest = <<>> THEN sorted
    ELSE SortFrom(InsertByTick(sorted, Head(rest)), Tail(rest))

\* The mutant of SortByTick: the sort left out.
SortByTickOmitted(midiEvents) == midiEvents

\* Line 617: midiEvents.sort((a, b) => a.tick - b.tick).
SortByTick(midiEvents) == SortFrom(<<>>, midiEvents)

\* Lines 619-629: midiEvents.forEach, the delta and the three bytes of each
\* event.
RECURSIVE WriteEvents(_, _)
WriteEvents(midiEvents, lastTick) ==
    IF midiEvents = <<>> THEN <<>>
    ELSE LET e == Head(midiEvents)
             delta == Max(0, e.tick - lastTick)
         IN  writeVLQ(delta)
             \o (IF e.type = "on" THEN <<144, e.note, e.velocity>>
                                  ELSE <<128, e.note, 0>>)
             \o WriteEvents(Tail(midiEvents), e.tick)

\* The mutant of TrackEvents: the track name written ahead of the tempo.
TrackEventsNameFirst(notes, instrumentName) ==
    << 0, 255, 3, Len(instrumentName) >> \o instrumentName
    \o << 0, 255, 81, 3 >>
    \o << (tempo \div 65536) % 256, (tempo \div 256) % 256, tempo % 256 >>
    \o WriteEvents(SortByTick(ExpandNotes(notes)), 0)
    \o << 0, 255, 47, 0 >>

\* Lines 598-631: the events array, the track's bytes.
TrackEvents(notes, instrumentName) ==
    << 0, 255, 81, 3 >>
    \o << (tempo \div 65536) % 256, (tempo \div 256) % 256, tempo % 256 >>
    \o << 0, 255, 3, Len(instrumentName) >> \o instrumentName
    \o WriteEvents(SortByTick(ExpandNotes(notes)), 0)
    \o << 0, 255, 47, 0 >>

\* Lines 633-650: header, track header and events, each element stored in a
\* Uint8Array (modulo 256).
MidiFileData(notes, instrumentName) ==
    LET events == TrackEvents(notes, instrumentName)
        header == << 77, 84, 104, 100, 0, 0, 0, 6, 0, 0, 0, 1,
                     (timeBase \div 256) % 256, timeBase % 256 >>
        trackLen == Len(events)
        trackHeader == << 77, 84, 114, 107,
                          (trackLen \div 16777216) % 256,
                          (trackLen \div 65536) % 256,
                          (trackLen \div 256) % 256,
                          trackLen % 256 >>
        all == header \o trackHeader \o events
    IN  [i \in 1..Len(all) |-> all[i] % 256]

\* The mutant of createMidiBlobFromNotes: the empty-list guard left out.
createMidiBlobUnguarded(notes, instrumentName) ==
    Blob(MidiFileData(notes, instrumentName))

\* Lines 578-651.
createMidiBlobFromNotes(notes, instrumentName) ==
    IF Len(notes) = 0 THEN [kind |-> "null"]
    ELSE Blob(MidiFileData(notes, instrumentName))

\* The note events the lists are built from.
NoteNumbers == {60, 69}
StartTimes == {0, 8, TimeDen \div 2}
Durations == {1, TimeDen \div 2, TimeDen}
Velocities == {0, VelDen}

NoteEvents ==
    [note : NoteNumbers, start : StartTimes, duration : Durations,
     velocity : Velocities]

MidiInputs == UNION { [1..n -> NoteEvents] : n \in 0..MaxMidiNotes }

\* Note events over the whole range of note numbers and velocities a caller
\* can hand in: note numbers below 1 and above 127, every velocity k / VelDen
\* of [0, 1] and one on each side of it.
WideNoteNumbers == {-1, 0, 1, 60, 127, 128, 300}
WideVelocities == (0..VelDen) \cup {-VelDen, 2 * VelDen}

WideNoteEvents ==
    [note : WideNoteNumbers, start : {0, 8}, duration : {1, TimeDen},
     velocity : WideVelocities]

\* Longest list of such notes.
MaxWideNotes == 1

WideInputs == UNION { [1..n -> WideNoteEvents] : n \in 0..MaxWideNotes }

\* The values handed to writeVLQ: every value up to MaxVlqDense, the
\* neighbours of the length boundaries 2^14, 2^21 and 2^28, and a stride
\* through 0..2^28-1.
MaxVlqDense == 300
MaxVlqStride == 60

VlqInputs ==
    (0..MaxVlqDense)
    \cup {16383, 16384, 16385, 2097151, 2097152, 2097153, 268435454, 268435455}
    \cup { i * (268435455 \div MaxVlqStride) : i \in 0..MaxVlqStride }

-----------------------------------------------------------------------------
(* IEEE double precision, for the minimum-duration test *)

\* A positive double is [exp, hi, mid, lo]: its 53 mantissa bits, the first
\* of them a 1, cut into the integers hi (17 bits), mid (18 bits) and lo (18
\* bits), and the exponent of the first bit; its value is
\* (hi * 2^36 + mid * 2^18 + lo) * 2^(exp - 52).
RECURSIVE Pow2(_)
Pow2(k) == IF k = 0 THEN 1 ELSE 2 * Pow2(k - 1)

Limb == Pow2(18)
HiOne == Pow2(16)       \* the first mantissa bit within hi

\* a / b with both scaled by powers of two until b <= a < 2b.
RECURSIVE Normalise(_, _, _)
Normalise(a, b, e) ==
    IF a < b THEN Normalise(2 * a, b, e - 1)
    ELSE IF a >= 2 * b THEN Normalise(a, 2 * b, e + 1)
    ELSE [a |-> a, b |-> b, exp |-> e]

\* k more quotient bits of the long division with remainder r < b, as an
\* integer q, and the remainder left.
RECURSIVE DivBits(_, _, _, _)
DivBits(q, r, b, k) ==
    IF k = 0 THEN [q |-> q, rem |-> r]
    ELSE IF 2 * r >= b THEN DivBits(2 * q + 1, 2 * r - b, b, k - 1)
                       ELSE DivBits(2 * q, 2 * r, b, k - 1)

\* The mantissa plus one unit in the last place; an all-ones mantissa carries
\* into the exponent.
RoundUp(x) ==
    IF x.lo + 1 < Limb THEN [x EXCEPT !.lo = x.lo + 1]
    ELSE IF x.mid + 1 < Limb THEN [x EXCEPT !.lo = 0, !.mid = x.mid + 1]
    ELSE IF x.hi + 1 < 2 * HiOne
         THEN [x EXCEPT !.lo = 0, !.mid = 0, !.hi = x.hi + 1]
         ELSE [exp |-> x.exp + 1, hi |-> HiOne, mid |-> 0, lo |-> 0]

\* The double nearest to a / b (ties to even) for integers 0 < a, b < 2^29:
\* what a / b evaluates to, and what the decimal literal a/b parses to.
FDiv(a, b) ==
    LET n == Normalise(a, b, 0)
        h == DivBits(1, n.a - n.b, n.b, 16)
        m == DivBits(0, h.rem, n.b, 18)
        l == DivBits(0, m.rem, n.b, 18)
        x == [exp |-> n.exp, hi |-> h.q, mid |-> m.q, lo |-> l.q]
    IN  IF 2 * l.rem > n.b \/ (2 * l.rem = n.b /\ l.q % 2 = 1)
        THEN RoundUp(x)
        ELSE x

\* The number of bits of hi beyond its 17: how far a product's mantissa has
\* to be shifted right.
RECURSIVE ExtraBits(_)
ExtraBits(hi) == IF hi < 2 * HiOne THEN 0 ELSE 1 + ExtraBits(hi \div 2)

\* The double nearest to n * x (ties to even) for an integer 1 <= n < 2^12
\* and a double x: what n * x evaluates to.
FMulInt(n, x) ==
    LET p0 == n * x.lo
        p1 == n * x.mid + p0 \div Limb
        p2 == n * x.hi + p1 \div Limb
        d0 == p0 % Limb
        d1 == p1 % Limb
        k == ExtraBits(p2)
        unit == Pow2(k)
        up == Limb \div unit
        kept == [exp |-> x.exp + k,
                 hi |-> p2 \div unit,
                 mid |-> (p2 % unit) * up + d1 \div unit,
                 lo |-> (d1 % unit) * up + d0 \div unit]
        dropped == d0 % unit
    IN  IF k > 0 /\ (2 * dropped > unit
                     \/ (2 * dropped = unit /\ kept.lo % 2 = 1))
        THEN RoundUp(kept)
        ELSE kept

\* x > y on doubles.
FGreater(x, y) ==
    \/ x.exp > y.exp
    \/ /\ x.exp = y.exp
       /\ \/ x.hi > y.hi
          \/ x.hi = y.hi /\ x.mid > y.mid
          \/ x.hi = y.hi /\ x.mid = y.mid /\ x.lo > y.lo

-----------------------------------------------------------------------------
(* extractNotesFromBuffer: smoothing, grouping, minimum duration *)

\* Line 145.
hopSize == 256

\* Line 177: the window of the median filter.
medianWindow == 7

\* Longest pitch-frame sequence handed to the segmenter.
MaxPitchFrames == 9

\* Longest of the pitch-frame sequences made of runs.
MaxRunFrames == 13

\* The sample rates of the buffers and the pitch values of the frames.
SegRates == {8000, 12800, 38400}
PitchValues == {0, 60, 62}

\* Lines 540-541: windowValues.sort(); windowValues[k], the k-th smallest
\* (from 0) of the window.
KthSmallest(windowValues, k) ==
    CHOOSE v \in {windowValues[j] : j \in 1..Len(windowValues)} :
        /\ Cardinality({j \in 1..Len(windowValues) : windowValues[j] < v}) <= k
        /\ k < Cardinality({j \in 1..Len(windowValues) : windowValues[j] <= v})

\* The mutant of medianFilter: the window filled up with zeros where it
\* reaches beyond the data.
medianFilterZeroPadded(data, windowSize) ==
    LET half == windowSize \div 2
    IN  [i \in 1..Len(data) |->
            LET windowValues ==
                    [j \in 1..(2 * half + 1) |->
                        IF i - half + j - 1 \in 1..Len(data)
                        THEN data[i - half + j - 1] ELSE 0]
            IN  KthSmallest(windowValues, Len(windowValues) \div 2)]

\* Lines 531-544.  Index i of the code is i + 1 here.
medianFilter(data, windowSize) ==
    LET half == windowSize \div 2
    IN  [i \in 1..Len(data) |->
            LET windowValues ==
                    SubSeq(data, Max(1, i - half), Min(Len(data), i + half))
            IN  KthSmallest(windowValues, Len(windowValues) \div 2)]

\* Line 182, frameDuration = hopSize / sampleRate, line 186, duration =
\* (endIndex - startIndex) * frameDuration, and line 189, duration > 0.06,
\* in double precision, for every rate and run length of the model.
DurationExceeds ==
    [rate \in SegRates, n \in 1..(MaxPitchFrames + MaxRunFrames) |->
        FGreater(FMulInt(n, FDiv(hopSize, rate)), FDiv(6, 100))]

\* The mutant of addNote: the note's start taken one frame late.
addNoteLateStart(noteNumber, startIndex, endIndex, rate) ==
    IF DurationExceeds[rate, endIndex - startIndex]
    THEN << [note |-> noteNumber, startFrame |-> startIndex + 1,
             frames |-> endIndex - startIndex] >>
    ELSE <<>>

\* Lines 184-205: the notes addNote pushes.  A note is kept as its start
\* frame and its length in frames: start = timeSteps[startFrame] =
\* startFrame * hopSize / sampleRate and duration = frames * frameDuration.
\* Its velocity (lines 190-196) depends on rmsFrames alone and is left out.
addNote(noteNumber, startIndex, endIndex, rate) ==
    IF DurationExceeds[rate, endIndex - startIndex]
    THEN << [note |-> noteNumber, startFrame |-> startIndex,
             frames |-> endIndex - startIndex] >>
    ELSE <<>>

\* Lines 207-216: the grouping loop from index i on, then the closing of the
\* run still open at the end.
RECURSIVE GroupRuns(_, _, _, _, _)
GroupRuns(smoothedNotes, i, currentNote, currentStartIndex, rate) ==
    IF i < Len(smoothedNotes)
    THEN LET note == smoothedNotes[i + 1]
         IN  IF note # currentNote
             THEN (IF currentNote > 0
                   THEN addNote(currentNote, currentStartIndex, i, rate)
                   ELSE <<>>)
                  \o GroupRuns(smoothedNotes, i + 1, note, i, rate)
             ELSE GroupRuns(smoothedNotes, i + 1, currentNote,
                            currentStartIndex, rate)
    ELSE IF currentNote > 0
         THEN addNote(currentNote, currentStartIndex, Len(smoothedNotes), rate)
         ELSE <<>>

\* The mutant of SegmentFrames: each note put in front of the list
\* (notes.unshift) instead of behind it.
SegmentFramesNewestFirst(frames, rate) ==
    LET notes == GroupRuns(medianFilter(frames, medianWindow), 0, 0, 0, rate)
    IN  [i \in 1..Len(notes) |-> notes[Len(notes) + 1 - i]]

\* Lines 173, 185: the start of a note, timeSteps[startIndex] = (startIndex
\* * hopSize) / sampleRate, as a double; 0 is the double of mantissa 0.
NoteStart(note, rate) ==
    IF note.startFrame = 0 THEN [exp |-> 0, hi |-> 0, mid |-> 0, lo |-> 0]
    ELSE FDiv(note.startFrame * hopSize, rate)

\* Lines 182, 186: the duration of a note, (endIndex - startIndex) *
\* frameDuration with frameDuration = hopSize / sampleRate, as a double.
NoteDuration(note, rate) == FMulInt(note.frames, FDiv(hopSize, rate))

\* Lines 176-217: extractNotesFromBuffer from its pitchFrames on.
SegmentFrames(frames, rate) ==
    GroupRuns(medianFilter(frames, medianWindow), 0, 0, 0, rate)

\* The pitch frames of a note list: each note a run of its frames at its note
\* number, 0 elsewhere, len frames in all.
RebuiltFrames(notes, len) ==
    [f \in 1..len |->
        LET at == {i \in 1..Len(notes) :
                     /\ notes[i].startFrame < f
                     /\ f <= notes[i].startFrame + notes[i].frames}
        IN  IF at = {} THEN 0 ELSE notes[CHOOSE i \in at : TRUE].note]

SegInputs == UNION { [1..n -> PitchValues] : n \in 0..MaxPitchFrames }

\* Longer pitch sequences: up to three runs of one pitch value each, of up to
\* MaxRunFrames frames together.
RunInputs ==
    { Repeat(p, a) \o Repeat(q, b) \o Repeat(r, c) :
        <<p, q, r>> \in PitchValues \X PitchValues \X PitchValues,
        <<a, b, c>> \in { t \in (0..MaxRunFrames) \X (0..MaxRunFrames)
                                 \X (0..MaxRunFrames) :
                             t[1] + t[2] + t[3] <= MaxRunFrames } }

-----------------------------------------------------------------------------
(* createOfflineContext and the three render functions *)

\* Math.ceil(num / den) for den > 0.
MathCeil(num, den) == -((-num) \div den)

\* new OfflineAudioContext(1, length, sampleRate) throws for a length of 0
\* and for a sample rate outside the range the platform supports.  Every
\* platform rejects a non-positive rate and accepts 8000..96000 Hz; between
\* these the platform decides.
PlatformAccepts(sampleRate) ==
    IF sampleRate <= 0 THEN {FALSE}
    ELSE IF sampleRate \in 8000..96000 THEN {TRUE}
    ELSE {TRUE, FALSE}

\* The mutant of ContextLength: totalDuration + 2.0 taken as it is.
ContextLengthUnclamped(sampleRate, totalDuration) ==
    MathCeil((totalDuration + 2 * TimeDen) * sampleRate, TimeDen)

\* The mutant of ContextLength: the two seconds of tail left out.
ContextLengthWithoutTail(sampleRate, totalDuration) ==
    MathCeil(Max(TimeDen, totalDuration) * sampleRate, TimeDen)

\* Lines 234-235: safeDuration = Math.max(1, totalDuration + 2.0) and
\* length = Math.ceil(safeDuration * sampleRate), totalDuration a numerator
\* over TimeDen.
ContextLength(sampleRate, totalDuration) ==
    LET safeDuration == Max(TimeDen, totalDuration + 2 * TimeDen)
    IN  MathCeil(safeDuration * sampleRate, TimeDen)

\* Lines 233-252: the length of the context created, or "error" when the
\* constructor throws; accepted is the platform's verdict on the rate.
createOfflineContext(sampleRate, totalDuration, accepted) ==
    LET length == ContextLength(sampleRate, totalDuration)
    IN  IF ~accepted \/ length = 0
        THEN [kind |-> "error"]
        ELSE [kind |-> "context", length |-> length]

\* The earliest time a note's graph is scheduled at, times 20 * TimeDen:
\* setValueAtTime, start and stop throw a RangeError for a negative time.
\* Saxophone: t and t + d - 0.05 (lines 302-311); violin and piano: t (lines
\* 410-434, 479-497).
EarliestTime(instrument, note) ==
    IF instrument = "sax"
    THEN Min(20 * note.start, 20 * (note.start + note.duration) - TimeDen)
    ELSE 20 * note.start

\* Math.random() returns RandomDen equally spaced values k / RandomDen of
\* [0, 1).
RandomDen == 2

\* Lines 505-519: the first frame of the impulse createSimpleReverb fills,
\* left[0] = (Math.random() * 2 - 1) * decay and right[0] likewise, with decay
\* = Math.pow(0.01, 0) = 1, as numerators over RandomDen.  random is the
\* sequence of values Math.random() returns from the call on.
createSimpleReverb(random) ==
    [left |-> 2 * random[1] - RandomDen, right |-> 2 * random[2] - RandomDen]

\* Lines 521-529: the first sample of the buffer createNoiseBuffer fills,
\* output[0] = (Math.random() * 2 - 1) * 0.5, as a numerator over
\* 2 * RandomDen.
createNoiseBuffer(random) == 2 * random[1] - RandomDen

\* The first note whose graph is scheduled at a negative time, 0 when there
\* is none: notes.forEach ends there with a RangeError.
FirstFailing(instrument, notes) ==
    LET failing == {i \in 1..Len(notes) : EarliestTime(instrument, notes[i]) < 0}
    IN  IF failing = {} THEN 0 ELSE CHOOSE i \in failing : \A j \in failing : i <= j

\* The number of createNoiseBuffer calls of a render function: one per note in
\* the saxophone (line 314, behind the note's first scheduling calls) and the
\* violin (line 403, ahead of them), none in the piano.
NoiseBuffers(instrument, notes) ==
    LET k == FirstFailing(instrument, notes)
    IN  IF instrument = "piano" THEN 0
        ELSE IF k = 0 THEN Len(notes)
        ELSE IF instrument = "sax" THEN k - 1
        ELSE k

\* The number of Math.random() values a render call draws up to the first
\* frame of each buffer it fills: none when the context cannot be created,
\* else two for the impulse and one for each noise buffer.
RenderDraws(instrument, notes, sampleRate, totalDuration, accepted) ==
    IF createOfflineContext(sampleRate, totalDuration, accepted).kind = "error"
    THEN 0
    ELSE 2 + NoiseBuffers(instrument, notes)

\* Lines 260-338, 345-438, 445-501: a render function.  The context comes
\* first, then the reverb, then notes.forEach builds every note's graph, then
\* startRendering resolves to a buffer of the context's length; the buffer is
\* kept as its length and the impulse and noise buffers that went into it.
RenderLocal(instrument, notes, sampleRate, totalDuration, accepted, random) ==
    LET ctx == createOfflineContext(sampleRate, totalDuration, accepted)
    IN  IF ctx.kind = "error"
        THEN [kind |-> "error", instrument |-> instrument]
        ELSE IF FirstFailing(instrument, notes) # 0
             THEN [kind |-> "error", instrument |-> instrument]
             ELSE [kind |-> "buffer", instrument |-> instrument,
                   length |-> ctx.length,
                   impulse |-> createSimpleReverb(random),
                   noise |-> [i \in 1..NoiseBuffers(instrument, notes) |->
                                createNoiseBuffer(SubSeq(random, 2 + i, 2 + i))]]

\* The sample rates and total durations the render functions are called with.
RenderRates == {-44100, 0, 3000, 8000, 44100}
RenderDurations ==
    {-3 * TimeDen, -2 * TimeDen, -TimeDen, 0, 1, TimeDen \div 2, TimeDen}

\* Longest note list handed to a render function.
MaxRenderNotes == 1

RenderInputs == UNION { [1..n -> NoteEvents] : n \in 0..MaxRenderNotes }

\* The values Math.random() is about to return when the first render call
\* begins, enough of them for two calls: a constant sequence and two that
\* vary.
StreamLen == 2 * (2 + MaxRenderNotes)

RandomStreams ==
    { [i \in 1..StreamLen |-> 0],
      [i \in 1..StreamLen |-> i % RandomDen],
      [i \in 1..StreamLen |-> (i \div 2) % RandomDen] }

-----------------------------------------------------------------------------
(* extractNotesFromBuffer: the analysis frames and the silence gate *)

\* Line 144.
windowSize == 1024

\* The buffer is kept block by block: all hopSize samples of a block have the
\* same magnitude, levels[b] / LevelDen, whatever their signs.  The last
\* block is a partial one when the length is no multiple of hopSize.
LevelDen == Pow2(6)

\* Most analysis frames of a buffer.
MaxExtractFrames == 3

\* Line 152: the number of passes of for (i = 0; i < data.length -
\* windowSize; i += hopSize).
FrameCount(length) ==
    IF length <= windowSize THEN 0 ELSE MathCeil(length - windowSize, hopSize)

\* Lines 153-157: sumSqRaw of the frame at i = k * hopSize, the squares of
\* the windowSize samples from i on, as a numerator over LevelDen^2.
WindowSumSq(buffer, k) ==
    LET blocks == windowSize \div hopSize
        Square(b) == hopSize * buffer.levels[b] * buffer.levels[b]
        RECURSIVE Sum(_)
        Sum(b) == IF b > k + blocks THEN 0 ELSE Square(b) + Sum(b + 1)
    IN  Sum(k + 1)

\* Lines 158, 161: rms = Math.sqrt(sumSqRaw / windowSize); rms >
\* rmsThreshold (0.02, line 146), that is sumSqRaw / windowSize > 4 / 10000.
RmsAboveThreshold(sumSqRaw) ==
    10000 * sumSqRaw > 4 * windowSize * LevelDen * LevelDen

\* The mutant of FramePitch: the silence gate left out.
FramePitchUngated(buffer, detected, k) == detected[k + 1]

\* Lines 160-172: the midiNote pushed for the frame at i = k * hopSize.
\* detected[k + 1] is what lines 162-169 (low-pass filtered chunk,
\* detectPitchAMDF, range test, rounding to a note number) arrive at.
FramePitch(buffer, detected, k) ==
    IF RmsAboveThreshold(WindowSumSq(buffer, k)) THEN detected[k + 1] ELSE 0

\* Lines 137-218.
extractNotesFromBuffer(buffer, detected) ==
    LET frames == [f \in 1..FrameCount(buffer.length) |->
                      FramePitch(buffer, detected, f - 1)]
    IN  [kind |-> "notes", pitchFrames |-> frames,
         notes |-> SegmentFrames(frames, buffer.sampleRate)]

\* The buffers: lengths around one analysis window and of one to
\* MaxExtractFrames frames, every block silent, faint (1/64) or loud (1/16).
Levels == {0, 1, 4}

ExtLengths ==
    {0, windowSize - 1, windowSize, windowSize + 1}
    \cup { windowSize + hopSize * f : f \in 1..MaxExtractFrames }

ExtBuffers ==
    UNION { [sampleRate : SegRates, length : {n},
             levels : [1..MathCeil(n, hopSize) -> Levels]] : n \in ExtLengths }

\* What the pitch detection arrives at for a frame: no pitch or a note.
DetectedValues == {0, 60}

-----------------------------------------------------------------------------
(* detectPitchAMDF *)

\* The samples of a frame are numerators over AmdfDen, a power of two, so
\* every difference and sum the function forms is exact.
AmdfDen == Pow2(7)

\* Longest frame of the frames tried exhaustively, and the length of the
\* longer pulse-train frames.
MaxFrameLen == 5
LongFrameLen == 18

Abs(x) == IF x < 0 THEN -x ELSE x

\* Line 548: the sum of buffer[i] * buffer[i], numerator over AmdfDen^2.
RECURSIVE SumOfSquares(_)
SumOfSquares(buffer) ==
    IF buffer = <<>> THEN 0
    ELSE Head(buffer) * Head(buffer) + SumOfSquares(Tail(buffer))

\* Lines 549-550: rms = Math.sqrt(rms / buffer.length); rms < 0.01, that is
\* sum / (length * AmdfDen^2) < 1 / 10000.
RmsBelowFloor(buffer) ==
    10000 * SumOfSquares(buffer) < Len(buffer) * AmdfDen * AmdfDen

\* The mutant of LagSum: the loop left before the term that reaches minVal is
\* added.
RECURSIVE LagSumBreakBeforeAdd(_, _, _, _, _)
LagSumBreakBeforeAdd(buffer, tau, i, currentSum, minVal) ==
    IF i < Len(buffer) - tau
    THEN LET sum == currentSum + Abs(buffer[i + 1] - buffer[i + tau + 1])
         IN  IF minVal # -1 /\ sum >= minVal THEN currentSum
             ELSE LagSumBreakBeforeAdd(buffer, tau, i + 2, sum, minVal)
    ELSE currentSum

\* Lines 563-566: the inner loop from index i on, for (; i < len - tau;
\* i += 2) { currentSum += |buffer[i] - buffer[i + tau]|; if (currentSum >=
\* minVal) break }.  minVal = -1 stands for Infinity.
RECURSIVE LagSum(_, _, _, _, _)
LagSum(buffer, tau, i, currentSum, minVal) ==
    IF i < Len(buffer) - tau
    THEN LET sum == currentSum + Abs(buffer[i + 1] - buffer[i + tau + 1])
         IN  IF minVal # -1 /\ sum >= minVal THEN sum
             ELSE LagSum(buffer, tau, i + 2, sum, minVal)
    ELSE currentSum

\* Lines 561-571: the outer loop from lag tau on; its value is bestPeriod.
RECURSIVE SearchLags(_, _, _, _, _)
SearchLags(buffer, tau, maxPeriod, minVal, bestPeriod) ==
    IF tau <= maxPeriod
    THEN LET currentSum == LagSum(buffer, tau, 0, 0, minVal)
         IN  IF minVal = -1 \/ currentSum < minVal
             THEN SearchLags(buffer, tau + 1, maxPeriod, currentSum, tau)
             ELSE SearchLags(buffer, tau + 1, maxPeriod, minVal, bestPeriod)
    ELSE bestPeriod

\* The value returned, num / den.
Returned(num, den) == [kind |-> "returned", num |-> num, den |-> den]

\* Lines 546-575.
detectPitchAMDF(buffer, sampleRate) ==
    IF RmsBelowFloor(buffer) THEN Returned(0, 1)
    ELSE LET minPeriod == sampleRate \div 1200
             maxPeriod == sampleRate \div 75
             bestPeriod == SearchLags(buffer, minPeriod, maxPeriod, -1, 0)
         IN  IF bestPeriod = 0 THEN Returned(0, 1)
             ELSE Returned(sampleRate, bestPeriod)

\* The frames: every frame of up to MaxFrameLen samples over four values
\* (-1.0, 0, 1/128, 1.0), and pulse trains of LongFrameLen samples, of period
\* 2 to 4 and height 1/32, with one sample turned over or none.
AmdfSamples == {-AmdfDen, 0, 1, AmdfDen}

PulseTrain(period, flip) ==
    [i \in 1..LongFrameLen |->
        LET v == IF (i - 1) % period = 0 THEN 4 ELSE 0
        IN  IF i = flip THEN 4 - v ELSE v]

\* A frame without a period: samples of +1/32 and -1/32 that differ in more
\* than two of five pairs at every lag from 1 to 16.
NoiseSigns == << 1, 1, 1, -1, -1, 1, 1, -1, 1, -1, 1, -1, -1, -1, -1, -1, -1, 1 >>

NoiseFrame ==
    [i \in 1..LongFrameLen |-> 4 * NoiseSigns[((i - 1) % Len(NoiseSigns)) + 1]]

AmdfInputs ==
    UNION { [1..n -> AmdfSamples] : n \in 1..MaxFrameLen }
    \cup { PulseTrain(period, flip) : period \in 2..4, flip \in 0..LongFrameLen }
    \cup { NoiseFrame }

\* Sample rates with candidate lags 1..16, 2..32 and 4..64.
AmdfRates == {1200, 2400, 4800}

-----------------------------------------------------------------------------
(* The tone transfer of src/App.tsx *)

(***************************************************************************)
(* App is a state machine driven by the user (file input, Reset, start and *)
(* stop buttons), by the live session's callbacks (onopen, onmessage,      *)
(* onerror, onclose) and by the browser's timers.  JavaScript runs one     *)
(* callback at a time, so every action below is one callback, one timer or *)
(* the part of an async handler between two awaits.  A setState call takes *)
(* effect at once; what lags behind is the appState a callback closes      *)
(* over, which is the one rendered when the callback was created.          *)
(***************************************************************************)

\* How many times the user acts (picks a file, presses Reset, start or
\* stop), how many transfers that starts and how many audio chunks a chunk
\* list receives.
MaxClicks == 4
MaxTransfers == 2
MaxChunks == 1

Transfers == 1..MaxTransfers

CHUNK_SIZE == 4096

\* The lengths of the resampled input: one chunk, one chunk and a sample.
DataLengths == {CHUNK_SIZE, CHUNK_SIZE + 1}

Null == [kind |-> "null"]

\* What decodeAudioData can return: audio of each length, and a digitally
\* silent file (maxVal < 0.00001 at line 188).
DecodedBuffers ==
    {[kind |-> "audio", length |-> n, silent |-> FALSE] : n \in DataLengths}
    \cup {[kind |-> "audio", length |-> 1, silent |-> TRUE]}

\* A timer handle.  A transfer has at most one pending timer of a kind, so
\* the kind and the transfer identify it.
Timer(kind, t) == [kind |-> kind, transfer |-> t]
NoTimer == Timer("none", 0)

\* clearTimeout(handle): a no-op on null and on a timer that has fired.
clearTimeout(handle, pending) == pending \ {handle}

UnusedSession ==
    [state |-> "unused", data |-> Null, offset |-> 0, rendered |-> "IDLE"]

NoLog ==
    [sent |-> <<>>,         \* the chunks sent: <<offset, end>> of each slice
     triggers |-> 0,        \* end-of-input triggers sent
     armed |-> 0,           \* times the watchdog was armed
     finalized |-> 0,       \* runs of finalizeOutput
     published |-> 0,       \* output buffers built and published
     stopped |-> FALSE,     \* streaming was stopped
     abandoned |-> FALSE,   \* the user reset while it was PROCESSING
     erred |-> FALSE]       \* it put appState into ERROR

\* session.close() on the session of transfer s (0: no session): an open
\* socket starts closing, and its close event follows.
Close(s, ss) ==
    IF s # 0 /\ ss[s].state = "open"
    THEN [ss EXCEPT ![s].state = "closing"]
    ELSE ss

\* finalizeOutput as created by the render that showed appState rendered,
\* run on behalf of transfer t; lg is the log with the caller's entries.
\* The chunks hold at least one sample each, so createBuffer does not throw,
\* and a note that generateMidiFromBuffer finds, so it returns a blob.
finalizeOutput(rendered, t, lg) ==
    /\ isStreamingRef' = FALSE
    /\ IF chunksRef = <<>>
       THEN /\ IF rendered # "ERROR"
               THEN appState' = "ERROR" /\ errorMsg' = "noAudio"
               ELSE UNCHANGED <<appState, errorMsg>>
            /\ UNCHANGED <<outputBuffer, midiBlobState>>
            /\ log' = [lg EXCEPT ![t].finalized = @ + 1]
       ELSE /\ outputBuffer' = [kind |-> "buffer", chunks |-> chunksRef]
            /\ midiBlobState' = [kind |-> "blob", chunks |-> chunksRef]
            /\ appState' = "COMPLETED"
            /\ UNCHANGED errorMsg
            /\ log' = [lg EXCEPT ![t].finalized = @ + 1,
                                 ![t].published = @ + 1]

\* pushChunk of the stream of transfer t; pending and ss are the timers and
\* the sessions as the caller leaves them.
pushChunk(t, pending, ss) ==
    IF ~isStreamingRef
    THEN /\ timers' = pending
         /\ sessions' = ss
         /\ UNCHANGED <<isStreamingRef, watchdogRef, streamTimeoutRef, log>>
    ELSE IF ss[t].offset >= ss[t].data.length
    THEN /\ watchdogRef' = Timer("watchdog", t)
         /\ timers' = pending \cup {Timer("watchdog", t)}
         /\ streamTimeoutRef' = NoTimer
         /\ sessions' = ss
         /\ log' = [log EXCEPT
                      ![t].armed = @ + 1,
                      ![t].triggers = IF sessionHasSend THEN @ + 1 ELSE @]
         /\ UNCHANGED isStreamingRef
    ELSE \E sendFails \in BOOLEAN :
         LET offset == ss[t].offset
             end == Min(offset + CHUNK_SIZE, ss[t].data.length)
         IN  /\ isStreamingRef' = ~sendFails
             /\ log' = IF sendFails
                       THEN [log EXCEPT ![t].stopped = TRUE]
                       ELSE [log EXCEPT ![t].sent = Append(@, <<offset, end>>)]
             /\ sessions' = [ss EXCEPT ![t].offset = offset + CHUNK_SIZE]
             /\ timers' = pending \cup {Timer("pushChunk", t)}
             /\ streamTimeoutRef' = Timer("pushChunk", t)
             /\ UNCHANGED watchdogRef

\* The file input, shown while there is no input buffer: up to the first
\* await.
handleFileUpload ==
    /\ inputBuffer = Null
    /\ ~decoding
    /\ decoding' = TRUE
    /\ appState' = "IDLE"
    /\ outputBuffer' = Null
    /\ midiBlobState' = Null
    /\ chunksRef' = <<>>
    /\ log' = [t \in Transfers |->
                 IF t = transfer /\ appState = "PROCESSING"
                 THEN [log[t] EXCEPT !.abandoned = TRUE] ELSE log[t]]
    /\ UNCHANGED <<inputBuffer, errorMsg, isStreamingRef, streamTimeoutRef,
                   watchdogRef, sessionRef, timers, sessions, awaiting,
                   transfer, sessionHasSend, file>>

\* handleFileUpload once the file is decoded, or the decoder has thrown.
handleFileUploadDecoded ==
    /\ decoding
    /\ decoding' = FALSE
    /\ \/ /\ inputBuffer' = file
          /\ appState' = "READY"
          /\ errorMsg' = "null"
       \/ /\ errorMsg' = "decode"
          /\ appState' = "ERROR"
          /\ UNCHANGED inputBuffer
    /\ UNCHANGED <<outputBuffer, midiBlobState, chunksRef, isStreamingRef,
                   streamTimeoutRef, watchdogRef, sessionRef, timers,
                   sessions, awaiting, transfer, sessionHasSend, file, log>>

\* The Reset button, shown while there is an input buffer.
Reset ==
    /\ inputBuffer # Null
    /\ inputBuffer' = Null
    /\ outputBuffer' = Null
    /\ midiBlobState' = Null
    /\ appState' = "IDLE"
    /\ log' = [t \in Transfers |->
                 IF t = transfer /\ appState = "PROCESSING"
                 THEN [log[t] EXCEPT !.abandoned = TRUE] ELSE log[t]]
    /\ UNCHANGED <<errorMsg, chunksRef, isStreamingRef, streamTimeoutRef,
                   watchdogRef, sessionRef, timers, sessions, awaiting,
                   decoding, transfer, sessionHasSend, file>>

\* The start button, shown unless PROCESSING and enabled with an input
\* buffer unless COMPLETED: startToneTransfer up to "await resampleBuffer".
\* The API key is present.
startToneTransfer ==
    /\ appState \notin {"PROCESSING", "COMPLETED"}
    /\ inputBuffer # Null
    /\ transfer < MaxTransfers
    /\ transfer' = transfer + 1
    /\ appState' = "PROCESSING"
    /\ chunksRef' = <<>>
    /\ isStreamingRef' = TRUE
    /\ errorMsg' = "null"
    /\ midiBlobState' = Null
    /\ sessions' = [sessions EXCEPT ![transfer + 1] =
                      [state |-> "resampling", data |-> inputBuffer,
                       offset |-> 0, rendered |-> appState]]
    /\ UNCHANGED <<inputBuffer, outputBuffer, streamTimeoutRef, watchdogRef,
                   sessionRef, timers, awaiting, decoding, sessionHasSend,
                   file, log>>

\* startToneTransfer of transfer t after the resampling: a silent input
\* ends it, otherwise client.live.connect is called, which returns the
\* session promise or throws.
startToneTransferResampled(t) ==
    /\ sessions[t].state = "resampling"
    /\ IF sessions[t].data.silent
       THEN /\ appState' = "ERROR"
            /\ errorMsg' = "silent"
            /\ sessions' = [sessions EXCEPT ![t].state = "unconnected"]
            /\ UNCHANGED sessionRef
       ELSE \/ /\ sessionRef' = t
               /\ sessions' = [sessions EXCEPT ![t].state = "connecting"]
               /\ UNCHANGED <<appState, errorMsg>>
            \/ /\ errorMsg' = "connect"
               /\ appState' = "ERROR"
               /\ sessions' = [sessions EXCEPT ![t].state = "unconnected"]
               /\ UNCHANGED sessionRef
    /\ UNCHANGED <<inputBuffer, outputBuffer, midiBlobState, chunksRef,
                   isStreamingRef, streamTimeoutRef, watchdogRef, timers,
                   awaiting, decoding, transfer, sessionHasSend, file, log>>

\* onopen of the session of transfer t: streamAudioToGemini clears the
\* pending stream timer and calls pushChunk.
onopen(t) ==
    /\ sessions[t].state = "connecting"
    /\ pushChunk(t, clearTimeout(streamTimeoutRef, timers),
                 [sessions EXCEPT ![t].state = "open"])
    /\ UNCHANGED <<appState, inputBuffer, outputBuffer, midiBlobState,
                   errorMsg, chunksRef, sessionRef, awaiting, decoding,
                   transfer, sessionHasSend, file>>

\* The stream timer of transfer t fires.
pushChunkTimer(t) ==
    /\ Timer("pushChunk", t) \in timers
    /\ pushChunk(t, timers \ {Timer("pushChunk", t)}, sessions)
    /\ UNCHANGED <<appState, inputBuffer, outputBuffer, midiBlobState,
                   errorMsg, chunksRef, sessionRef, awaiting, decoding,
                   transfer, sessionHasSend, file>>

\* onmessage of the session of transfer t: the message carries an audio
\* part or not, and turnComplete or not.
onmessage(t) ==
    /\ sessions[t].state = "open"
    /\ \E audio, turnComplete \in BOOLEAN :
        /\ audio => Len(chunksRef) < MaxChunks
        /\ chunksRef' = IF audio THEN Append(chunksRef, t) ELSE chunksRef
        /\ watchdogRef' = NoTimer
        /\ IF turnComplete
           THEN /\ timers' = clearTimeout(streamTimeoutRef,
                                          clearTimeout(watchdogRef, timers))
                /\ isStreamingRef' = FALSE
                /\ sessions' = Close(t, sessions)
                /\ log' = [log EXCEPT ![t].stopped = TRUE]
           ELSE /\ timers' = clearTimeout(watchdogRef, timers)
                /\ UNCHANGED <<isStreamingRef, sessions, log>>
    /\ UNCHANGED <<appState, inputBuffer, outputBuffer, midiBlobState,
                   errorMsg, streamTimeoutRef, sessionRef, awaiting,
                   decoding, transfer, sessionHasSend, file>>

\* onerror of the session of transfer t; the socket's close event follows
\* its error event.
onerror(t) ==
    /\ sessions[t].state \in {"connecting", "open"}
    /\ timers' = clearTimeout(streamTimeoutRef,
                              clearTimeout(watchdogRef, timers))
    /\ errorMsg' = "server"
    /\ appState' = "ERROR"
    /\ sessions' = [sessions EXCEPT ![t].state = "closing"]
    /\ log' = [log EXCEPT ![t].stopped = TRUE, ![t].erred = TRUE]
    /\ UNCHANGED <<inputBuffer, outputBuffer, midiBlobState, chunksRef,
                   isStreamingRef, streamTimeoutRef, watchdogRef, sessionRef,
                   awaiting, decoding, transfer, sessionHasSend, file>>

\* onclose of the session of transfer t: the server closed it, or the close
\* the client asked for has completed.
onclose(t) ==
    /\ sessions[t].state \in {"open", "closing"}
    /\ timers' = clearTimeout(streamTimeoutRef,
                              clearTimeout(watchdogRef, timers))
    /\ sessions' = [sessions EXCEPT ![t].state = "closed"]
    /\ finalizeOutput(sessions[t].rendered, t,
                      [log EXCEPT ![t].stopped = TRUE])
    /\ UNCHANGED <<inputBuffer, chunksRef, streamTimeoutRef, watchdogRef,
                   sessionRef, awaiting, decoding, transfer,
                   sessionHasSend, file>>

\* The watchdog timer armed by transfer t fires.  handleServerTimeout is
\* created once (useCallback with no dependencies), so the finalizeOutput it
\* calls is the one of the first render, when appState was IDLE.
handleServerTimeout(t) ==
    /\ Timer("watchdog", t) \in timers
    /\ timers' = clearTimeout(watchdogRef, timers \ {Timer("watchdog", t)})
    /\ sessions' = Close(sessionRef, sessions)
    /\ IF chunksRef = <<>>
       THEN /\ isStreamingRef' = FALSE
            /\ appState' = "ERROR"
            /\ errorMsg' = "timeout"
            /\ log' = [log EXCEPT ![t].erred = TRUE]
            /\ UNCHANGED <<outputBuffer, midiBlobState>>
       ELSE finalizeOutput("IDLE", t, log)
    /\ UNCHANGED <<inputBuffer, chunksRef, streamTimeoutRef, watchdogRef,
                   sessionRef, awaiting, decoding, transfer,
                   sessionHasSend, file>>

\* The stop button, shown while PROCESSING: stopProcessingManual up to
\* "await sessionRef.current", or to its end when there is no session.
stopProcessingManual ==
    /\ appState = "PROCESSING"
    /\ timers' = LET pending == clearTimeout(streamTimeoutRef,
                                             clearTimeout(watchdogRef, timers))
                 IN  IF sessionRef = 0
                     THEN pending \cup {Timer("finalize", transfer)}
                     ELSE pending
    /\ awaiting' = IF sessionRef = 0 THEN awaiting
                   ELSE awaiting \cup {<<sessionRef, transfer>>}
    /\ isStreamingRef' = FALSE
    /\ log' = [log EXCEPT ![transfer].stopped = TRUE]
    /\ UNCHANGED <<appState, inputBuffer, outputBuffer, midiBlobState,
                   errorMsg, chunksRef, streamTimeoutRef, watchdogRef,
                   sessionRef, sessions, decoding, transfer,
                   sessionHasSend, file>>

\* stopProcessingManual of transfer t once the promise of session s is
\* settled: it closes the session and sets the timer of the delayed
\* finalizeOutput.
stopProcessingManualResumed(s, t) ==
    /\ <<s, t>> \in awaiting
    /\ sessions[s].state \in {"open", "closing", "closed"}
    /\ awaiting' = awaiting \ {<<s, t>>}
    /\ sessions' = Close(s, sessions)
    /\ timers' = timers \cup {Timer("finalize", t)}
    /\ UNCHANGED <<appState, inputBuffer, outputBuffer, midiBlobState,
                   errorMsg, chunksRef, isStreamingRef, streamTimeoutRef,
                   watchdogRef, sessionRef, decoding, transfer,
                   sessionHasSend, file, log>>

\* The timer of line 154 fires: finalizeOutput as created by the render
\* that showed the stop button, when appState was PROCESSING.
finalizeTimer(t) ==
    /\ Timer("finalize", t) \in timers
    /\ timers' = timers \ {Timer("finalize", t)}
    /\ finalizeOutput("PROCESSING", t, log)
    /\ UNCHANGED <<inputBuffer, chunksRef, streamTimeoutRef, watchdogRef,
                   sessionRef, sessions, awaiting, decoding, transfer,
                   sessionHasSend, file>>

AppIdle ==
    /\ appState = "IDLE" /\ inputBuffer = Null /\ outputBuffer = Null
    /\ midiBlobState = Null /\ errorMsg = "null"
    /\ chunksRef = <<>> /\ isStreamingRef = FALSE
    /\ streamTimeoutRef = NoTimer /\ watchdogRef = NoTimer
    /\ sessionRef = 0 /\ timers = {}
    /\ sessions = [t \in Transfers |-> UnusedSession]
    /\ awaiting = {} /\ decoding = FALSE /\ transfer = 0
    /\ sessionHasSend = FALSE
    /\ file = Null
    /\ clicks = 0
    /\ log = [t \in Transfers |-> NoLog]

-----------------------------------------------------------------------------
(* The calls *)

CallAudioBufferToWav ==
    /\ wavBlob.kind = "pending"
    /\ wavBlob' = Blob(audioBufferToWav(wavBuffer))
    /\ UNCHANGED <<wavBuffer, vlqVars, midiVars, segVars, renderVars,
                   extVars, amdfVars, appVars>>

\* The variables of the functions a specification does not call.
WavIdle == wavBuffer = PatternBuffer(0, 1, 8000, 0) /\ wavBlob = Pending
VlqIdle == vlqValue = 0 /\ vlqEvents = <<>>
MidiIdle == midiNotes = <<>> /\ midiBlob = Pending
SegIdle ==
    /\ segRate = 8000 /\ pitchFrames = <<>>
    /\ segNotes = Pending /\ segAgain = Pending
RenderIdle ==
    /\ renderNotes = <<>> /\ renderRate = 8000 /\ renderDuration = 0
    /\ renderResult = Pending /\ renderAgain = Pending
    /\ mathRandom = <<>>

ExtIdle ==
    /\ extBuffer = [sampleRate |-> 8000, length |-> 0, levels |-> <<>>]
    /\ extDetected = <<>>
    /\ extResult = Pending
AmdfIdle == amdfBuffer = <<>> /\ amdfRate = 1200 /\ amdfResult = Pending

InitWav ==
    /\ wavBuffer \in WavInputs
    /\ wavBlob = Pending
    /\ VlqIdle /\ MidiIdle /\ SegIdle /\ RenderIdle
    /\ ExtIdle /\ AmdfIdle
    /\ AppIdle

NextWav == CallAudioBufferToWav

SpecWav == InitWav /\ [][NextWav]_vars

CallWriteVLQ ==
    /\ vlqEvents = <<>>
    /\ vlqEvents' = vlqEvents \o writeVLQ(vlqValue)
    /\ UNCHANGED <<vlqValue, wavVars, midiVars, segVars, renderVars,
                   extVars, amdfVars, appVars>>

InitVlq ==
    /\ vlqValue \in VlqInputs
    /\ vlqEvents = <<>>
    /\ WavIdle /\ MidiIdle /\ SegIdle /\ RenderIdle
    /\ ExtIdle /\ AmdfIdle
    /\ AppIdle

NextVlq == CallWriteVLQ

SpecVlq == InitVlq /\ [][NextVlq]_vars

CallCreateMidiBlobFromNotes ==
    /\ midiBlob.kind = "pending"
    /\ midiBlob' = createMidiBlobFromNotes(midiNotes, DefaultInstrumentName)
    /\ UNCHANGED <<midiNotes, wavVars, vlqVars, segVars, renderVars,
                   extVars, amdfVars, appVars>>

InitMidi ==
    /\ midiNotes \in MidiInputs
    /\ midiBlob = Pending
    /\ WavIdle /\ VlqIdle /\ SegIdle /\ RenderIdle
    /\ ExtIdle /\ AmdfIdle
    /\ AppIdle

NextMidi == CallCreateMidiBlobFromNotes

SpecMidi == InitMidi /\ [][NextMidi]_vars

\* createMidiBlobFromNotes called with notes of any number and velocity.
InitMidiWide ==
    /\ midiNotes \in WideInputs
    /\ midiBlob = Pending
    /\ WavIdle /\ VlqIdle /\ SegIdle /\ RenderIdle
    /\ ExtIdle /\ AmdfIdle
    /\ AppIdle

SpecMidiWide == InitMidiWide /\ [][NextMidi]_vars

Notes(list) == [kind |-> "notes", notes |-> list]

CallExtractNotes ==
    /\ segNotes.kind = "pending"
    /\ segNotes' = [kind |-> "notes",
                    notes |-> SegmentFrames(pitchFrames, segRate),
                    smoothedNotes |-> medianFilter(pitchFrames, medianWindow)]
    /\ UNCHANGED <<segRate, pitchFrames, segAgain, wavVars, vlqVars, midiVars,
                   renderVars, extVars, amdfVars, appVars>>

\* The segmenter called again, on the pitch frames of the notes it returned.
CallExtractNotesAgain ==
    /\ segNotes.kind = "notes"
    /\ segAgain.kind = "pending"
    /\ segAgain' = Notes(SegmentFrames(
                        RebuiltFrames(segNotes.notes, Len(pitchFrames)), segRate))
    /\ UNCHANGED <<segRate, pitchFrames, segNotes, wavVars, vlqVars, midiVars,
                   renderVars, extVars, amdfVars, appVars>>

InitSeg ==
    /\ segRate \in SegRates
    /\ pitchFrames \in SegInputs
    /\ segNotes = Pending /\ segAgain = Pending
    /\ WavIdle /\ VlqIdle /\ MidiIdle /\ RenderIdle
    /\ ExtIdle /\ AmdfIdle
    /\ AppIdle

NextSeg == CallExtractNotes \/ CallExtractNotesAgain

SpecSeg == InitSeg /\ [][NextSeg]_vars

\* The segmenter called on the longer sequences of runs.
InitSegRuns ==
    /\ segRate \in SegRates
    /\ pitchFrames \in RunInputs
    /\ segNotes = Pending /\ segAgain = Pending
    /\ WavIdle /\ VlqIdle /\ MidiIdle /\ RenderIdle
    /\ ExtIdle /\ AmdfIdle
    /\ AppIdle

SpecSegRuns == InitSegRuns /\ [][NextSeg]_vars

\* Lines 260-338.  The first call fills renderResult; a second call of the
\* same function with the same arguments fills renderAgain.  Math.random()
\* goes on from where the call left it.
renderLocalSaxophoneSolo ==
    /\ \E accepted \in PlatformAccepts(renderRate) :
          LET result == RenderLocal("sax", renderNotes, renderRate,
                                    renderDuration, accepted, mathRandom)
              draws == RenderDraws("sax", renderNotes, renderRate,
                                   renderDuration, accepted)
          IN  /\ \/ /\ renderResult.kind = "pending"
                    /\ renderResult' = result
                    /\ UNCHANGED renderAgain
                 \/ /\ renderResult.kind # "pending"
                    /\ renderResult.instrument = "sax"
                    /\ renderAgain.kind = "pending"
                    /\ renderAgain' = result
                    /\ UNCHANGED renderResult
              /\ mathRandom' = SubSeq(mathRandom, draws + 1, Len(mathRandom))
    /\ UNCHANGED <<renderNotes, renderRate, renderDuration,
                   wavVars, vlqVars, midiVars, segVars,
                   extVars, amdfVars, appVars>>

\* Lines 345-438.  The first call fills renderResult; a second call of the
\* same function with the same arguments fills renderAgain.  Math.random()
\* goes on from where the call left it.
renderLocalViolinSolo ==
    /\ \E accepted \in PlatformAccepts(renderRate) :
          LET result == RenderLocal("violin", renderNotes, renderRate,
                                    renderDuration, accepted, mathRandom)
              draws == RenderDraws("violin", renderNotes, renderRate,
                                   renderDuration, accepted)
          IN  /\ \/ /\ renderResult.kind = "pending"
                    /\ renderResult' = result
                    /\ UNCHANGED renderAgain
                 \/ /\ renderResult.kind # "pending"
                    /\ renderResult.instrument = "violin"
                    /\ renderAgain.kind = "pending"
                    /\ renderAgain' = result
                    /\ UNCHANGED renderResult
              /\ mathRandom' = SubSeq(mathRandom, draws + 1, Len(mathRandom))
    /\ UNCHANGED <<renderNotes, renderRate, renderDuration,
                   wavVars, vlqVars, midiVars, segVars,
                   extVars, amdfVars, appVars>>

\* Lines 445-501.  The first call fills renderResult; a second call of the
\* same function with the same arguments fills renderAgain.  Math.random()
\* goes on from where the call left it.
renderLocalPianoSolo ==
    /\ \E accepted \in PlatformAccepts(renderRate) :
          LET result == RenderLocal("piano", renderNotes, renderRate,
                                    renderDuration, accepted, mathRandom)
              draws == RenderDraws("piano", renderNotes, renderRate,
                                   renderDuration, accepted)
          IN  /\ \/ /\ renderResult.kind = "pending"
                    /\ renderResult' = result
                    /\ UNCHANGED renderAgain
                 \/ /\ renderResult.kind # "pending"
                    /\ renderResult.instrument = "piano"
                    /\ renderAgain.kind = "pending"
                    /\ renderAgain' = result
                    /\ UNCHANGED renderResult
              /\ mathRandom' = SubSeq(mathRandom, draws + 1, Len(mathRandom))
    /\ UNCHANGED <<renderNotes, renderRate, renderDuration,
                   wavVars, vlqVars, midiVars, segVars,
                   extVars, amdfVars, appVars>>

InitRender ==
    /\ renderNotes \in RenderInputs
    /\ renderRate \in RenderRates
    /\ renderDuration \in RenderDurations
    /\ renderResult = Pending /\ renderAgain = Pending
    /\ mathRandom \in RandomStreams
    /\ WavIdle /\ VlqIdle /\ MidiIdle /\ SegIdle
    /\ ExtIdle /\ AmdfIdle
    /\ AppIdle

NextRender ==
    renderLocalSaxophoneSolo \/ renderLocalViolinSolo \/ renderLocalPianoSolo

SpecRender == InitRender /\ [][NextRender]_vars

CallExtractNotesFromBuffer ==
    /\ extResult.kind = "pending"
    /\ extResult' = extractNotesFromBuffer(extBuffer, extDetected)
    /\ UNCHANGED <<extBuffer, extDetected, wavVars, vlqVars, midiVars, segVars,
                   renderVars, amdfVars, appVars>>

InitExtract ==
    /\ extBuffer \in ExtBuffers
    /\ extDetected \in [1..FrameCount(extBuffer.length) -> DetectedValues]
    /\ extResult = Pending
    /\ WavIdle /\ VlqIdle /\ MidiIdle /\ SegIdle /\ RenderIdle /\ AmdfIdle
    /\ AppIdle

NextExtract == CallExtractNotesFromBuffer

SpecExtract == InitExtract /\ [][NextExtract]_vars

CallDetectPitchAMDF ==
    /\ amdfResult.kind = "pending"
    /\ amdfResult' = detectPitchAMDF(amdfBuffer, amdfRate)
    /\ UNCHANGED <<amdfBuffer, amdfRate, wavVars, vlqVars, midiVars, segVars,
                   renderVars, extVars, appVars>>

InitPitch ==
    /\ amdfBuffer \in AmdfInputs
    /\ amdfRate \in AmdfRates
    /\ amdfResult = Pending
    /\ WavIdle /\ VlqIdle /\ MidiIdle /\ SegIdle /\ RenderIdle /\ ExtIdle
    /\ AppIdle

NextPitch == CallDetectPitchAMDF

SpecPitch == InitPitch /\ [][NextPitch]_vars

-----------------------------------------------------------------------------
(* The calls of the tone transfer *)

\* The state after App's first render.  The SDK build decides whether a
\* Session has a send method, and the user has one audio file to pick.
InitApp ==
    /\ appState = "IDLE" /\ inputBuffer = Null /\ outputBuffer = Null
    /\ midiBlobState = Null /\ errorMsg = "null"
    /\ chunksRef = <<>> /\ isStreamingRef = FALSE
    /\ streamTimeoutRef = NoTimer /\ watchdogRef = NoTimer
    /\ sessionRef = 0 /\ timers = {}
    /\ sessions = [t \in Transfers |-> UnusedSession]
    /\ awaiting = {} /\ decoding = FALSE /\ transfer = 0
    /\ sessionHasSend \in BOOLEAN
    /\ file \in DecodedBuffers
    /\ clicks = 0
    /\ log = [t \in Transfers |-> NoLog]
    /\ WavIdle /\ VlqIdle /\ MidiIdle /\ SegIdle /\ RenderIdle
    /\ ExtIdle /\ AmdfIdle

\* A step of App leaves the audio utilities' variables alone.
AppStep(A) ==
    A /\ UNCHANGED <<wavVars, vlqVars, midiVars, segVars, renderVars, extVars,
                     amdfVars>>

\* What the user does.
UserActs ==
    /\ clicks < MaxClicks
    /\ clicks' = clicks + 1
    /\ AppStep(\/ handleFileUpload
               \/ Reset
               \/ startToneTransfer
               \/ stopProcessingManual)

\* What the live session of a transfer does.
SessionActs ==
    /\ UNCHANGED clicks
    /\ AppStep(\E t \in Transfers : onmessage(t) \/ onerror(t) \/ onclose(t))

\* What happens by itself: the awaited promises settle, the connection
\* opens and the timers fire.
Continues ==
    /\ UNCHANGED clicks
    /\ AppStep(\/ handleFileUploadDecoded
               \/ \E t \in Transfers :
                    \/ startToneTransferResampled(t)
                    \/ onopen(t)
                    \/ pushChunkTimer(t)
                    \/ handleServerTimeout(t)
                    \/ finalizeTimer(t)
               \/ \E s, t \in Transfers : stopProcessingManualResumed(s, t))

NextApp == UserActs \/ SessionActs \/ Continues

SpecApp == InitApp /\ [][NextApp]_vars

\* A step of App that is no act of the user.
Auto(A) == AppStep(A) /\ UNCHANGED clicks

\* The event loop runs every timer that is due and every continuation whose
\* promise is settled; a connection attempt ends (it opens unless onerror
\* comes first); a socket that is closing gets its close event.  Nothing
\* makes the user act, or the server send a message or close the session.
SpecAppFair ==
    /\ SpecApp
    /\ WF_vars(Auto(handleFileUploadDecoded))
    /\ \A t \in Transfers :
        /\ WF_vars(Auto(startToneTransferResampled(t)))
        /\ WF_vars(Auto(onopen(t)))
        /\ WF_vars(Auto(pushChunkTimer(t)))
        /\ WF_vars(Auto(handleServerTimeout(t)))
        /\ WF_vars(Auto(finalizeTimer(t)))
        /\ WF_vars(Auto(sessions[t].state = "closing" /\ onclose(t)))
    /\ \A s, t \in Transfers : WF_vars(Auto(stopProcessingManualResumed(s, t)))

-----------------------------------------------------------------------------
(* Reading the files back *)

\* The signed 16-bit little-endian word at byte offset off (from 0) of bytes.
WavWord(bytes, off) ==
    LET u == bytes[off + 1] + 256 * bytes[off + 2]
    IN  IF u >= 32768 THEN u - 65536 ELSE u

\* The unsigned little-endian fields of a WAV header.
WavU16(bytes, off) == bytes[off + 1] + 256 * bytes[off + 2]
WavU32(bytes, off) ==
    bytes[off + 1] + 256 * bytes[off + 2] + 65536 * bytes[off + 3]
    + 16777216 * bytes[off + 4]

\* A variable-length quantity read from position p (from 1) of bytes:
\* value = value * 128 + (byte & 0x7F) up to the first byte below 0x80.
RECURSIVE DecodeVlq(_, _, _)
DecodeVlq(bytes, p, acc) ==
    IF bytes[p] >= 128
    THEN DecodeVlq(bytes, p + 1, acc * 128 + (bytes[p] - 128))
    ELSE [value |-> acc * 128 + bytes[p], next |-> p + 1]

\* The note events of a track read from position p on, each with its delta and
\* the running sum of all deltas up to it; meta events are skipped, the
\* end-of-track event (FF 2F) ends the reading.
RECURSIVE ParseEvents(_, _, _)
ParseEvents(bytes, p, tick) ==
    IF p > Len(bytes) THEN <<>>
    ELSE LET d == DecodeVlq(bytes, p, 0)
             q == d.next
             status == bytes[q]
         IN  IF status = 255
             THEN IF bytes[q + 1] = 47 THEN <<>>
                  ELSE ParseEvents(bytes, q + 3 + bytes[q + 2], tick + d.value)
             ELSE << [delta |-> d.value, tick |-> tick + d.value,
                      type |-> IF status = 144 THEN "on" ELSE "off",
                      note |-> bytes[q + 1], velocity |-> bytes[q + 2]] >>
                  \o ParseEvents(bytes, q + 3, tick + d.value)

\* The 14 bytes of the header chunk and the 8 of the track header precede the
\* track's events.
ParsedTrack(bytes) == ParseEvents(bytes, 23, 0)

\* The first open tuple of note number n in tuples, 0 when there is none.
FirstOpen(tuples, n) ==
    LET open == {i \in 1..Len(tuples) : tuples[i].note = n /\ tuples[i].endTick = -1}
    IN  IF open = {} THEN 0 ELSE CHOOSE i \in open : \A j \in open : i <= j

\* Note-ons open a tuple, each note-off closes the earliest open tuple of its
\* note number.
RECURSIVE PairNotes(_, _)
PairNotes(events, tuples) ==
    IF events = <<>> THEN tuples
    ELSE LET e == Head(events)
         IN  IF e.type = "on"
             THEN PairNotes(Tail(events),
                    Append(tuples, [note |-> e.note, startTick |-> e.tick,
                                    endTick |-> -1]))
             ELSE LET i == FirstOpen(tuples, e.note)
                  IN  PairNotes(Tail(events),
                        IF i = 0 THEN tuples
                        ELSE [tuples EXCEPT ![i].endTick = e.tick])

\* round(seconds * 960) for seconds = t / TimeDen: the integer k with
\* k - 1/2 <= seconds * 960 < k + 1/2.
NearestTick(t) == (1920 * t + TimeDen) \div (2 * TimeDen)

\* The tuples the round trip is to recover.
ExpectedTuples(notes) ==
    [i \in 1..Len(notes) |->
        [note |-> notes[i].note,
         startTick |-> NearestTick(notes[i].start),
         endTick |-> NearestTick(notes[i].start + notes[i].duration)]]

StartOrdered(notes) ==
    \A i \in 1..(Len(notes) - 1) : notes[i].start <= notes[i + 1].start

\* No note ends, in ticks, after a later note of the same number ends.
NoNestedSameNote(notes) ==
    \A i, j \in 1..Len(notes) :
        (i < j /\ notes[i].note = notes[j].note)
        => NearestTick(notes[i].start + notes[i].duration)
           <= NearestTick(notes[j].start + notes[j].duration)

\* The instants of the notes in generation order: note by note, on before off.
GeneratedInstants(notes) ==
    [k \in 1..(2 * Len(notes)) |->
        LET n == notes[(k + 1) \div 2]
        IN  IF k % 2 = 1
            THEN [tick |-> NearestTick(n.start), type |-> "on", note |-> n.note]
            ELSE [tick |-> NearestTick(n.start + n.duration), type |-> "off",
                  note |-> n.note]]

\* The place of instant k in the stable order by tick: behind every instant of
\* a smaller tick and every earlier instant of the same tick.
StablePlace(gen, k) ==
    1 + Cardinality({j \in 1..Len(gen) :
                        \/ gen[j].tick < gen[k].tick
                        \/ gen[j].tick = gen[k].tick /\ j < k})

-----------------------------------------------------------------------------
(* Claims *)

\* C1: audioBufferToWav emits every input sample: the 16-bit word at byte
\* offset 44 + 2*(k*C + c) is the quantized sample k of channel c, and the
\* mono buffer [1.0, -1.0] at 8000 Hz yields the words 32767, -32768.
C1_EverySampleEmitted ==
    wavBlob.kind = "blob" =>
        /\ \A k \in 0..(wavBuffer.length - 1) :
             \A c \in 0..(wavBuffer.numberOfChannels - 1) :
                WavWord(wavBlob.bytes,
                        44 + 2 * (k * wavBuffer.numberOfChannels + c))
                = QuantizeSample(wavBuffer.channels[c + 1][k + 1])
        /\ (wavBuffer = PatternBuffer(2, 1, 8000, 0) /\ SampleDen = 4)
             => /\ WavWord(wavBlob.bytes, 44) = 32767
                /\ WavWord(wavBlob.bytes, 46) = -32768

\* The quantization C2 states: negative samples times 32768, the others
\* times 32767, truncated.
SignSplitQuantize(s) ==
    LET c == Max(-SampleDen, Min(SampleDen, s))
    IN  IF c < 0 THEN TruncDiv(c * 32768, SampleDen)
                 ELSE TruncDiv(c * 32767, SampleDen)

\* C2: every word audioBufferToWav writes is the clamped sample times 32768
\* when the clamped sample is negative and times 32767 otherwise, truncated,
\* and lies in -32768..32767.  (The words written are those of the frames
\* from index 44 on, stored from byte offset 44.)
C2_SignSplitQuantization ==
    wavBlob.kind = "blob" =>
        \A pos \in 44..(wavBuffer.length - 1) :
            \A c \in 0..(wavBuffer.numberOfChannels - 1) :
                LET w == WavWord(wavBlob.bytes,
                           44 + 2 * ((pos - 44) * wavBuffer.numberOfChannels + c))
                IN  /\ w = SignSplitQuantize(wavBuffer.channels[c + 1][pos + 1])
                    /\ w \in -32768..32767

\* C3 as stated: for every start-ordered list the tuples read back from the
\* track (note-offs paired with the earliest open note-on of the same number)
\* are (note, round(start*960), round((start+duration)*960)) in list order.
C3_RoundTripAnyOrderedList ==
    (midiBlob.kind = "blob" /\ StartOrdered(midiNotes)) =>
        PairNotes(ParsedTrack(midiBlob.bytes), <<>>) = ExpectedTuples(midiNotes)

\* C3 as amended: the same round trip for start-ordered lists in which no note
\* ends after a later note of the same note number ends.
C3_RoundTrip ==
    (midiBlob.kind = "blob" /\ StartOrdered(midiNotes)
        /\ NoNestedSameNote(midiNotes)) =>
        PairNotes(ParsedTrack(midiBlob.bytes), <<>>) = ExpectedTuples(midiNotes)

\* Two overlapping notes of one number, the first ending first, were encoded
\* and read back.
C3_Witness ==
    /\ midiBlob.kind = "blob"
    /\ Len(midiNotes) = 2
    /\ midiNotes[1].note = midiNotes[2].note
    /\ midiNotes[1].start < midiNotes[2].start
    /\ midiNotes[2].start < midiNotes[1].start + midiNotes[1].duration
    /\ NoNestedSameNote(midiNotes)
    /\ PairNotes(ParsedTrack(midiBlob.bytes), <<>>) = ExpectedTuples(midiNotes)

\* C4: writeVLQ appends 1 to 4 bytes for a value below 2^28, the high bit set
\* on all but the last, and reading them most significant group first gives
\* the value back.
C4_VlqBitExact ==
    vlqEvents # <<>> =>
        /\ Len(vlqEvents) \in 1..4
        /\ \A i \in 1..(Len(vlqEvents) - 1) : vlqEvents[i] \in 128..255
        /\ vlqEvents[Len(vlqEvents)] \in 0..127
        /\ DecodeVlq(vlqEvents, 1, 0).value = vlqValue
        /\ DecodeVlq(vlqEvents, 1, 0).next = Len(vlqEvents) + 1

\* writeVLQ has written a value that takes all four bytes.
C4_Witness ==
    /\ Len(vlqEvents) = 4
    /\ vlqValue >= 2097152

\* C5: the note events of the track are the generated instants in stable
\* order by tick, and each event's delta is its tick minus the tick of the
\* event before it (its tick itself for the first), so the running sum of the
\* deltas is the event's tick.
C5_StableTickOrder ==
    midiBlob.kind = "blob" =>
        LET gen == GeneratedInstants(midiNotes)
            got == ParsedTrack(midiBlob.bytes)
        IN  /\ Len(got) = Len(gen)
            /\ \A k \in 1..Len(gen) :
                 LET e == got[StablePlace(gen, k)]
                 IN  /\ e.tick = gen[k].tick
                     /\ e.type = gen[k].type
                     /\ e.note = gen[k].note
            /\ \A k \in 1..Len(got) :
                 got[k].delta = got[k].tick - (IF k = 1 THEN 0 ELSE got[k - 1].tick)
            /\ \A k \in 1..(Len(got) - 1) : got[k].tick <= got[k + 1].tick

\* A list whose generation order is not its tick order was encoded, with two
\* instants on one tick.
C5_Witness ==
    /\ midiBlob.kind = "blob"
    /\ Len(midiNotes) = 2
    /\ midiNotes[2].start < midiNotes[1].start + midiNotes[1].duration
    /\ \E k \in 1..3 : ParsedTrack(midiBlob.bytes)[k + 1].delta = 0
    /\ \E k \in 1..4 : StablePlace(GeneratedInstants(midiNotes), k) # k

\* C6: every note's note-on is written at tick round(start*960) and its
\* note-off at round((start+duration)*960); the single note {note 69, start
\* 0, duration 0.5, velocity 1.0} gives a note-on delta of 0 and a note-off
\* delta of 480.
C6_SecondsToTicks ==
    midiBlob.kind = "blob" =>
        LET got == ParsedTrack(midiBlob.bytes)
        IN  /\ { <<got[k].type, got[k].note, got[k].tick>> : k \in 1..Len(got) }
               = { <<"on", midiNotes[i].note, NearestTick(midiNotes[i].start)>> :
                     i \in 1..Len(midiNotes) }
                 \cup
                 { <<"off", midiNotes[i].note,
                     NearestTick(midiNotes[i].start + midiNotes[i].duration)>> :
                     i \in 1..Len(midiNotes) }
            /\ (/\ TimeDen = 1024
                /\ midiNotes = << [note |-> 69, start |-> 0, duration |-> 512,
                                   velocity |-> VelDen] >>)
               => /\ Len(got) = 2
                  /\ got[1].type = "on" /\ got[1].delta = 0
                  /\ got[2].type = "off" /\ got[2].delta = 480

\* The single note of the scenario was encoded.
C6_Witness ==
    /\ midiBlob.kind = "blob"
    /\ midiNotes = << [note |-> 69, start |-> 0, duration |-> 512,
                       velocity |-> VelDen] >>
    /\ ParsedTrack(midiBlob.bytes)[2].delta = 480

\* C9: createMidiBlobFromNotes returns null exactly for the empty list and a
\* container for every other list.
C9_NullIffEmpty ==
    midiBlob.kind # "pending" =>
        /\ midiBlob.kind \in {"null", "blob"}
        /\ midiBlob.kind = "null" <=> midiNotes = <<>>

\* The empty list was encoded and gave null.
C9_Witness == midiNotes = <<>> /\ midiBlob.kind = "null"

\* Frames s .. s+n-1 (from 0) of smoothed are a closed run: one non-zero
\* value throughout, another value or the sequence's end on either side.
IsRun(smoothed, s, n) ==
    /\ smoothed[s + 1] # 0
    /\ \A f \in (s + 1)..(s + n) : smoothed[f] = smoothed[s + 1]
    /\ s = 0 \/ smoothed[s] # smoothed[s + 1]
    /\ s + n = Len(smoothed) \/ smoothed[s + n + 1] # smoothed[s + 1]

\* C7: a closed non-silent run of n frames is among the notes returned if and
\* only if n * hopSize / sampleRate is strictly greater than 60 ms.
C7_MinimumDuration ==
    segNotes.kind = "notes" =>
        LET smoothed == medianFilter(pitchFrames, 7)
        IN  \A s \in 0..(Len(smoothed) - 1) :
              \A n \in 1..(Len(smoothed) - s) :
                IsRun(smoothed, s, n) =>
                    ((\E i \in 1..Len(segNotes.notes) :
                        segNotes.notes[i] = [note |-> smoothed[s + 1],
                                             startFrame |-> s, frames |-> n])
                     <=> n * 256 * 1000 > 60 * segRate)

\* C8 as stated: segmenting the pitch frames rebuilt from a returned note list
\* returns the same note list.
C8_IdempotentAlways ==
    segAgain.kind = "notes" => segAgain.notes = segNotes.notes

\* C8 as amended: it returns the same note list whenever the rebuilt pitch
\* frames have no glitches, that is, the 7-frame median leaves them unchanged.
C8_IdempotentOnSmoothFrames ==
    LET rebuilt == RebuiltFrames(segNotes.notes, Len(pitchFrames))
    IN  (segAgain.kind = "notes" /\ medianFilter(rebuilt, 7) = rebuilt)
            => segAgain.notes = segNotes.notes

\* Two notes came out of frames the smoothing had changed, their rebuilt
\* frames are smooth, and the second call returned the same two notes.
C8_Witness ==
    /\ segAgain.kind = "notes"
    /\ Len(segNotes.notes) = 2
    /\ medianFilter(pitchFrames, 7) # pitchFrames
    /\ LET rebuilt == RebuiltFrames(segNotes.notes, Len(pitchFrames))
       IN  medianFilter(rebuilt, 7) = rebuilt
    /\ segAgain.notes = segNotes.notes

\* Every note lasts longer than 60 ms, as the notes the segmenter returns do.
LongerThanMinimum(notes) ==
    \A i \in 1..Len(notes) : 100 * notes[i].duration > 6 * TimeDen

C11_RepeatedRenderIdentical ==
    (renderResult.kind = "buffer" /\ renderAgain.kind = "buffer") =>
        /\ renderAgain.impulse = renderResult.impulse
        /\ renderAgain.noise = renderResult.noise

C13_StartsStrictlyIncrease ==
    segNotes.kind = "notes" =>
        \A i \in 1..(Len(segNotes.notes) - 1) :
            /\ segNotes.notes[i].startFrame < segNotes.notes[i + 1].startFrame
            /\ segNotes.notes[i].startFrame + segNotes.notes[i].frames
                 <= segNotes.notes[i + 1].startFrame

\* The segmenter returned two notes of different numbers.
C13_Witness ==
    /\ segNotes.kind = "notes"
    /\ Len(segNotes.notes) >= 2
    /\ segNotes.notes[1].note # segNotes.notes[2].note
    /\ segNotes.notes[1].startFrame < segNotes.notes[2].startFrame

\* C14: the encoder clamps note numbers to 1..127: the note byte of every
\* note-on and note-off event of the file lies in 1..127, whatever the note
\* numbers handed in.
C14_NoteByteClamped ==
    midiBlob.kind = "blob" =>
        LET events == ParsedTrack(midiBlob.bytes)
        IN  \A k \in 1..Len(events) : events[k].note \in 1..127

\* C15: for every note with velocity in [0, 1] the velocity byte of its
\* note-on event is floor(clamp(velocity * 127, 10, 127)), the integer b of
\* 10..127 with b <= clamp < b + 1, and the velocity byte of its note-off
\* event is 0.  Instant k of the notes (note by note, on before off) is the
\* event at its place in the stable order by tick.
C15_VelocityByte ==
    midiBlob.kind = "blob" =>
        LET events == ParsedTrack(midiBlob.bytes)
            gen == GeneratedInstants(midiNotes)
        IN  /\ Len(events) = Len(gen)
            /\ \A k \in 1..Len(gen) :
                 LET n == midiNotes[(k + 1) \div 2]
                     e == events[StablePlace(gen, k)]
                     scaled == 127 * n.velocity
                     clamp == IF scaled < 10 * VelDen THEN 10 * VelDen
                              ELSE IF scaled > 127 * VelDen THEN 127 * VelDen
                              ELSE scaled
                 IN  (n.velocity >= 0 /\ n.velocity <= VelDen) =>
                        IF gen[k].type = "on"
                        THEN /\ e.type = "on"
                             /\ e.velocity \in 10..127
                             /\ e.velocity * VelDen <= clamp
                             /\ clamp < (e.velocity + 1) * VelDen
                        ELSE e.type = "off" /\ e.velocity = 0

\* A note of velocity 0 was written with velocity byte 10, or one of a
\* velocity strictly between 10/127 and 1 with a byte strictly between 10 and
\* 127.
C15_Witness ==
    /\ midiBlob.kind = "blob"
    /\ Len(midiNotes) = 1
    /\ LET events == ParsedTrack(midiBlob.bytes)
       IN  /\ events[1].type = "on"
           /\ \/ midiNotes[1].velocity = 0 /\ events[1].velocity = 10
              \/ /\ 2 * midiNotes[1].velocity \in {VelDen, VelDen + 1}
                 /\ events[1].velocity \in 63..71

\* The position behind n channel events (a delta, then a status byte 0x90 or
\* 0x80 and two data bytes) read from position p of bytes; 0 when what is
\* there is not n such events.
RECURSIVE SkipNoteEvents(_, _, _)
SkipNoteEvents(bytes, p, n) ==
    IF n = 0 THEN p
    ELSE IF p > Len(bytes) THEN 0
    ELSE LET q == DecodeVlq(bytes, p, 0).next
         IN  IF q + 2 <= Len(bytes) /\ bytes[q] \in {128, 144}
             THEN SkipNoteEvents(bytes, q + 3, n - 1)
             ELSE 0

\* The bytes of a big-endian 32-bit field at position p (from 1).
BigEndian32(bytes, p) ==
    16777216 * bytes[p] + 65536 * bytes[p + 1] + 256 * bytes[p + 2] + bytes[p + 3]

\* C16: the file of a non-empty note list is laid out as: 'MThd', payload
\* length 6, format 0, one track, division 480; 'MTrk' and the big-endian
\* number of track bytes that follow; in the track the tempo meta-event
\* (delta 0, FF 51 03, 500000) first, then the track-name meta-event, then the
\* two events of every note, and 00 FF 2F 00 as the last four bytes.
C16_FileLayout ==
    midiBlob.kind = "blob" =>
        LET bytes == midiBlob.bytes
            total == Len(bytes)
            nameLen == bytes[33]
            firstEvent == 34 + nameLen
        IN  /\ SubSeq(bytes, 1, 14)
                 = << 77, 84, 104, 100, 0, 0, 0, 6, 0, 0, 0, 1, 1, 224 >>
            /\ 256 * bytes[13] + bytes[14] = 480
            /\ SubSeq(bytes, 15, 18) = << 77, 84, 114, 107 >>
            /\ BigEndian32(bytes, 19) = total - 22
            /\ SubSeq(bytes, 23, 26) = << 0, 255, 81, 3 >>
            /\ 65536 * bytes[27] + 256 * bytes[28] + bytes[29] = 500000
            /\ SubSeq(bytes, 30, 32) = << 0, 255, 3 >>
            /\ SubSeq(bytes, 34, 33 + nameLen) = DefaultInstrumentName
            /\ SkipNoteEvents(bytes, firstEvent, 2 * Len(midiNotes)) = total - 3
            /\ SubSeq(bytes, total - 3, total) = << 0, 255, 47, 0 >>

\* A file of two notes was written.
C16_Witness ==
    /\ midiBlob.kind = "blob"
    /\ Len(midiNotes) = 2
    /\ BigEndian32(midiBlob.bytes, 19) = Len(midiBlob.bytes) - 22
    /\ BigEndian32(midiBlob.bytes, 19) > 30 + 4 * 3

\* C17: for a buffer of N frames, C channels and sample rate R the file has
\* 44 + 2*N*C bytes and its header declares, little-endian: 'RIFF', total
\* length - 8, 'WAVE', 'fmt ', chunk length 16, PCM tag 1, C channels, rate R,
\* byte rate 2*R*C, block-align 2*C, 16 bits per sample, 'data' and a data
\* length of 2*N*C (4 for a mono buffer of 2 frames).
C17_WavHeader ==
    wavBlob.kind = "blob" =>
        LET bytes == wavBlob.bytes
            N == wavBuffer.length
            C == wavBuffer.numberOfChannels
            R == wavBuffer.sampleRate
        IN  /\ Len(bytes) = 44 + 2 * N * C
            /\ SubSeq(bytes, 1, 4) = << 82, 73, 70, 70 >>
            /\ WavU32(bytes, 4) = Len(bytes) - 8
            /\ SubSeq(bytes, 9, 16) = << 87, 65, 86, 69, 102, 109, 116, 32 >>
            /\ WavU32(bytes, 16) = 16
            /\ WavU16(bytes, 20) = 1
            /\ WavU16(bytes, 22) = C
            /\ WavU32(bytes, 24) = R
            /\ WavU32(bytes, 28) = 2 * R * C
            /\ WavU16(bytes, 32) = 2 * C
            /\ WavU16(bytes, 34) = 16
            /\ SubSeq(bytes, 37, 40) = << 100, 97, 116, 97 >>
            /\ WavU32(bytes, 40) = 2 * N * C
            /\ (N = 2 /\ C = 1) => WavU32(bytes, 40) = 4

\* A mono buffer of two frames was written with a data length of 4, and a
\* stereo one with a block-align of 4.
C17_Witness ==
    /\ wavBlob.kind = "blob"
    /\ \/ /\ wavBuffer.length = 2 /\ wavBuffer.numberOfChannels = 1
          /\ WavU32(wavBlob.bytes, 40) = 4
          /\ Len(wavBlob.bytes) = 48
       \/ /\ wavBuffer.length = 3 /\ wavBuffer.numberOfChannels = 2
          /\ WavU16(wavBlob.bytes, 32) = 4
          /\ Len(wavBlob.bytes) = 56

\* The frame at i = k * hopSize is at or below the silence gate: the mean of
\* the squares of its samples is at most 0.02^2.
FrameAtOrBelowGate(buffer, k) ==
    LET squares == hopSize * ( buffer.levels[k + 1] * buffer.levels[k + 1]
                             + buffer.levels[k + 2] * buffer.levels[k + 2]
                             + buffer.levels[k + 3] * buffer.levels[k + 3]
                             + buffer.levels[k + 4] * buffer.levels[k + 4] )
    IN  2500 * squares <= windowSize * LevelDen * LevelDen

\* C18: silence gives an empty result: when every analysis frame has an RMS
\* at or below the gate (an all-zero buffer in particular) every per-frame
\* pitch value is 0 and the list returned is empty, and an input shorter than
\* one analysis window gives an empty list too.
C18_SilenceGivesNoNotes ==
    extResult.kind = "notes" =>
        /\ (\A k \in 0..(FrameCount(extBuffer.length) - 1) :
                FrameAtOrBelowGate(extBuffer, k))
             => /\ \A f \in 1..Len(extResult.pitchFrames) :
                      extResult.pitchFrames[f] = 0
                /\ extResult.notes = <<>>
        /\ (\A b \in 1..Len(extBuffer.levels) : extBuffer.levels[b] = 0)
             => extResult.notes = <<>>
        /\ extBuffer.length < windowSize
             => extResult.pitchFrames = <<>> /\ extResult.notes = <<>>

\* A buffer of three frames, faint but not silent in every block, with a
\* pitch to detect in every frame, gave three pitch values of 0 and no note.
C18_Witness ==
    /\ extResult.kind = "notes"
    /\ extBuffer.length = windowSize + 3 * hopSize
    /\ \A b \in 1..Len(extBuffer.levels) : extBuffer.levels[b] = 1
    /\ \A f \in 1..Len(extDetected) : extDetected[f] = 60
    /\ extResult.pitchFrames = <<0, 0, 0>>
    /\ extResult.notes = <<>>

\* The candidate lags that leave the frame and the shifted frame at least one
\* sample in common.
CandidateLags(buffer, sampleRate) ==
    {tau \in (sampleRate \div 1200)..(sampleRate \div 75) : tau < Len(buffer)}

\* The sum of |buffer[i] - buffer[i + tau]| over all Len(buffer) - tau pairs;
\* the mean absolute difference at lag tau is this sum over their number.
AbsDiffSum(buffer, tau) ==
    LET RECURSIVE Sum(_)
        Sum(i) == IF i > Len(buffer) - tau THEN 0
                  ELSE Abs(buffer[i] - buffer[i + tau]) + Sum(i + 1)
    IN  Sum(1)

\* The mean absolute difference at lag t is smaller than, or equal to, the one
\* at lag u.
MeanLess(buffer, t, u) ==
    AbsDiffSum(buffer, t) * (Len(buffer) - u)
        < AbsDiffSum(buffer, u) * (Len(buffer) - t)
MeanEqual(buffer, t, u) ==
    AbsDiffSum(buffer, t) * (Len(buffer) - u)
        = AbsDiffSum(buffer, u) * (Len(buffer) - t)

\* The candidate lag of the smallest mean absolute difference, the smallest
\* such lag on ties.
BestLag(buffer, sampleRate) ==
    CHOOSE t \in CandidateLags(buffer, sampleRate) :
        \A u \in CandidateLags(buffer, sampleRate) :
            /\ ~MeanLess(buffer, u, t)
            /\ MeanEqual(buffer, u, t) => t <= u

\* The mean absolute difference at lag tau exceeds 80% of the frame's RMS:
\* (sum / pairs)^2 > 0.64 * (sum of squares / length).
ExceedsConfidence(buffer, tau) ==
    LET sum == AbsDiffSum(buffer, tau)
        pairs == Len(buffer) - tau
    IN  25 * Len(buffer) * sum * sum > 16 * pairs * pairs * SumOfSquares(buffer)

\* C19: the confidence gate: when the smallest mean absolute difference over
\* the candidate lags exceeds 80% of the frame's RMS, detectPitchAMDF returns
\* 0 and no frequency.
C19_ConfidenceGate ==
    ( /\ amdfResult.kind = "returned"
      /\ CandidateLags(amdfBuffer, amdfRate) # {}
      /\ \A tau \in CandidateLags(amdfBuffer, amdfRate) :
            ExceedsConfidence(amdfBuffer, tau) )
    => amdfResult.num = 0

\* C20: for a frame that passes the silence gate detectPitchAMDF returns
\* sampleRate / tau*, tau* the candidate lag of the smallest mean absolute
\* difference between the frame and the frame shifted by the lag, the
\* smallest such lag on ties, also when some candidate lags are as long as
\* the frame or longer.
C20_ReturnsBestLag ==
    ( /\ amdfResult.kind = "returned"
      /\ ~RmsBelowFloor(amdfBuffer)
      /\ CandidateLags(amdfBuffer, amdfRate) # {} )
    => /\ amdfResult.num = amdfRate
       /\ amdfResult.den = BestLag(amdfBuffer, amdfRate)

\* The sum the inner loop of detectPitchAMDF forms for lag tau when it is
\* never left early: |buffer[i] - buffer[i + tau]| over every second i below
\* Len(buffer) - tau.
FullLagSum(buffer, tau) ==
    LET RECURSIVE Sum(_)
        Sum(i) == IF i >= Len(buffer) - tau THEN 0
                  ELSE Abs(buffer[i + 1] - buffer[i + tau + 1]) + Sum(i + 2)
    IN  Sum(0)

\* The lag selected when every candidate's sum is computed in full: the first
\* lag of the range whose sum is the smallest.
FullSearchLag(buffer, sampleRate) ==
    LET lags == (sampleRate \div 1200)..(sampleRate \div 75)
    IN  CHOOSE t \in lags :
            \A u \in lags :
                /\ FullLagSum(buffer, t) <= FullLagSum(buffer, u)
                /\ FullLagSum(buffer, u) = FullLagSum(buffer, t) => t <= u

\* C21: the early exit of detectPitchAMDF is a cost bound only: the lag
\* selected with the break is the lag selected when every candidate's sum is
\* computed in full.
C21_EarlyExitSameLag ==
    (amdfResult.kind = "returned" /\ ~RmsBelowFloor(amdfBuffer)) =>
        /\ amdfResult.num = amdfRate
        /\ amdfResult.den = FullSearchLag(amdfBuffer, amdfRate)

\* A call in which the inner loop was left early: behind the lag selected
\* there is a lag whose first term alone reaches the selected lag's sum and
\* whose full sum is greater still.
C21_Witness ==
    /\ amdfResult.kind = "returned"
    /\ amdfResult.num # 0
    /\ \E u \in (amdfResult.den + 1)..(amdfRate \div 75) :
          /\ Len(amdfBuffer) - u > 2
          /\ Abs(amdfBuffer[1] - amdfBuffer[u + 1])
               >= FullLagSum(amdfBuffer, amdfResult.den)
          /\ FullLagSum(amdfBuffer, u) > Abs(amdfBuffer[1] - amdfBuffer[u + 1])

\* data is c everywhere but at index d.
ConstantButOne(data, c, d) ==
    /\ d \in 1..Len(data)
    /\ data[d] # c
    /\ \A i \in 1..Len(data) : i # d => data[i] = c

\* C22: medianFilter with window 7 returns as many values as it is given and
\* rejects single-frame glitches: for an input of at least 3 frames that is
\* constant but for one frame, the first and the last frame included, every
\* value returned is the constant.
C22_MedianRejectsGlitch ==
    segNotes.kind = "notes" =>
        /\ Len(segNotes.smoothedNotes) = Len(pitchFrames)
        /\ \A c \in PitchValues : \A d \in 1..Len(pitchFrames) :
              (Len(pitchFrames) >= 3 /\ ConstantButOne(pitchFrames, c, d))
              => \A i \in 1..Len(pitchFrames) : segNotes.smoothedNotes[i] = c

\* Three frames of which the first deviates, and a longer sequence of which
\* the last deviates, were smoothed to the constant.
C22_Witness ==
    /\ segNotes.kind = "notes"
    /\ \/ /\ Len(pitchFrames) = 3
          /\ ConstantButOne(pitchFrames, 60, 1)
       \/ /\ Len(pitchFrames) = 8
          /\ ConstantButOne(pitchFrames, 62, 8)
    /\ \A i \in 1..Len(pitchFrames) :
          segNotes.smoothedNotes[i] = pitchFrames[2]

\* The number of frames of the run the sequence ends with.
FinalRunLength(smoothed) ==
    LET last == Len(smoothed)
        same == {n \in 1..last :
                    \A f \in (last - n + 1)..last : smoothed[f] = smoothed[last]}
    IN  CHOOSE n \in same : \A m \in same : m <= n

\* C23: a non-silent run still open when the smoothed sequence ends is closed
\* at the last frame and yields a note, of the run's start and length, exactly
\* when its duration length * hopSize / sampleRate exceeds 60 ms; a sequence
\* that ends in silence yields no note reaching the last frame.
C23_OpenRunClosed ==
    (segNotes.kind = "notes" /\ Len(segNotes.smoothedNotes) > 0) =>
        LET smoothed == segNotes.smoothedNotes
            last == Len(smoothed)
            n == FinalRunLength(smoothed)
        IN  IF smoothed[last] # 0
            THEN (\E i \in 1..Len(segNotes.notes) :
                     segNotes.notes[i] = [note |-> smoothed[last],
                                          startFrame |-> last - n,
                                          frames |-> n])
                 <=> n * hopSize * 1000 > 60 * segRate
            ELSE \A i \in 1..Len(segNotes.notes) :
                     segNotes.notes[i].startFrame + segNotes.notes[i].frames < last

\* The mantissa of a double as four limbs of 18 bits, least significant
\* first, shifted left by k bits.
RECURSIVE ShiftedLimbs(_, _)
ShiftedLimbs(limbs, k) ==
    IF k = 0 THEN limbs
    ELSE LET d0 == 2 * limbs[1]
             d1 == 2 * limbs[2] + d0 \div Limb
             d2 == 2 * limbs[3] + d1 \div Limb
             d3 == 2 * limbs[4] + d2 \div Limb
         IN  ShiftedLimbs(<<d0 % Limb, d1 % Limb, d2 % Limb, d3>>, k - 1)

\* x + y > z for doubles x, y, z >= 0, the sum taken exactly: the three
\* mantissas brought to the smallest of the exponents, added and compared
\* limb by limb.
SumExceeds(x, y, z) ==
    LET e == Min(x.exp, Min(y.exp, z.exp))
        X == ShiftedLimbs(<<x.lo, x.mid, x.hi, 0>>, x.exp - e)
        Y == ShiftedLimbs(<<y.lo, y.mid, y.hi, 0>>, y.exp - e)
        Z == ShiftedLimbs(<<z.lo, z.mid, z.hi, 0>>, z.exp - e)
        s0 == X[1] + Y[1]
        s1 == X[2] + Y[2] + s0 \div Limb
        s2 == X[3] + Y[3] + s1 \div Limb
        s3 == X[4] + Y[4] + s2 \div Limb
        S == <<s0 % Limb, s1 % Limb, s2 % Limb, s3>>
    IN  \/ S[4] > Z[4]
        \/ S[4] = Z[4] /\ S[3] > Z[3]
        \/ S[4] = Z[4] /\ S[3] = Z[3] /\ S[2] > Z[2]
        \/ S[4] = Z[4] /\ S[3] = Z[3] /\ S[2] = Z[2] /\ S[1] > Z[1]

\* C24: the notes returned are monophonic: of two consecutive notes, start +
\* duration of the earlier is at most the start of the later.
C24_NoOverlap ==
    segNotes.kind = "notes" =>
        \A i \in 1..(Len(segNotes.notes) - 1) :
            ~SumExceeds(NoteStart(segNotes.notes[i], segRate),
                        NoteDuration(segNotes.notes[i], segRate),
                        NoteStart(segNotes.notes[i + 1], segRate))

\* C25: a transfer that is PROCESSING becomes COMPLETED or ERROR without
\* the user acting again, given that the timers fire: whenever appState is
\* PROCESSING, later it is COMPLETED or ERROR, or the user has acted.
C25_TransferEnds ==
    \A n \in 0..MaxClicks :
        (appState = "PROCESSING" /\ clicks = n)
            ~> (appState \in {"COMPLETED", "ERROR"} \/ clicks # n)

\* A callback or a timer of transfer t runs.
CallbackOf(t) ==
    \/ onmessage(t)
    \/ onclose(t)
    \/ handleServerTimeout(t)
    \/ finalizeTimer(t)

\* C26: once the user has reset (or picked a new file) while transfer t was
\* PROCESSING, no callback or timer of t changes appState, outputBuffer or
\* midiBlob, and none adds a chunk to the chunk list of a later transfer.
C26_AbandonedIsInert ==
    [][\A t \in Transfers :
          (log[t].abandoned /\ CallbackOf(t)) =>
              /\ appState' = appState
              /\ outputBuffer' = outputBuffer
              /\ midiBlobState' = midiBlobState
              /\ (transfer > t => chunksRef' = chunksRef)]_vars

\* C27: once transfer t has put appState into ERROR (onerror, or the
\* watchdog with no audio received), no later callback of t takes appState
\* out of ERROR or replaces the error shown.
C27_ErrorIsFinal ==
    [][\A t \in Transfers :
          (log[t].erred /\ appState = "ERROR" /\ CallbackOf(t)) =>
              (appState' = "ERROR" /\ errorMsg' = errorMsg)]_vars

\* C28: finalizeOutput runs at most once for a transfer, and the output of
\* a transfer is built and published at most once.
C28_FinalizedOnce ==
    \A t \in Transfers : log[t].finalized <= 1 /\ log[t].published <= 1

\* The slices of CHUNK_SIZE samples that cover the offsets from..length-1.
RECURSIVE Slices(_, _)
Slices(from, length) ==
    IF from >= length THEN <<>>
    ELSE <<(<<from, Min(from + CHUNK_SIZE, length)>>)>>
         \o Slices(from + CHUNK_SIZE, length)

\* C29: when the stream of transfer t has reached the end of the input
\* without being stopped, it has sent the slices that cover the input, each
\* once and in order, then one end-of-input trigger, it has armed the
\* watchdog once, and no pushChunk is scheduled.
C29_StreamsOnce ==
    \A t \in Transfers :
        (log[t].armed >= 1 /\ ~log[t].stopped) =>
            /\ log[t].sent = Slices(0, sessions[t].data.length)
            /\ log[t].triggers = 1
            /\ log[t].armed = 1
            /\ Timer("pushChunk", t) \notin timers

\* C30: once the streaming of transfer t has been stopped (manual stop,
\* turnComplete, close, server error or a failed send), no chunk of t is
\* sent and its watchdog is not armed.
C30_StoppedStaysStopped ==
    [][\A t \in Transfers :
          log[t].stopped =>
              (log'[t].sent = log[t].sent /\ log'[t].armed = log[t].armed)]_vars

=============================================================================
